---- MODULE Spec2Model ----
(***************************************************************************)
(* Model of the DocX -> LaTeX converter (AutoPVCBB).                       *)
(*                                                                         *)
(* A text is a sequence of one-character strings, so that the string       *)
(* operations of the code (strip, startswith, split, replace, re.match)    *)
(* are computed character by character.                                    *)
(*                                                                         *)
(*   Spec       one conversion: outline scan, element walk, correction,    *)
(*              render (and a second render of the same data)              *)
(*   SpecTable  TableProcessor.remove_duplicate_columns on bounded tables  *)
(*   SpecText   the structural classifier and escape_latex on bounded text *)
(*   SpecTitle  the page header built by convert / generate_title_header   *)
(*   SpecCorrect  TextCorrector.correct_paragraphs_batch on bounded lists   *)
(*   SpecBatch  the batch caller of gui.py (start_conversion, process_files) *)
(*   SpecCompile  convert with _compile_to_pdf, on one converter instance   *)
(*   SpecImage  the sizing of the embedded images of one paragraph          *)
(*   SpecToc  the outline scan and generate_toc on bounded outlines         *)
(*   SpecRuns  _update_paragraph_text on one paragraph with formatted runs  *)
(*   SpecWhitelist  one call of _call_correction_api                        *)
(***************************************************************************)
EXTENDS Integers, Sequences, FiniteSets, TLC

VARIABLES
    \* ---- one conversion (converter.py) ----
    pc,                    \* position in convert / _process_document
    doc,                   \* doc.element.body: the block-level nodes, in order
    doc_title,             \* data['title'] (the stem of the input file's name)
    para_text,             \* current text of each paragraph node
    pos,                   \* number of body elements the walk has consumed
    first_text,            \* data['first_text']: <<>> is None, <<t>> is t
    elements,              \* data['elements']
    sections_list,         \* data['sections_list']
    subsections_list,      \* data['subsections_list']
    present_names,         \* data['present_names']
    table_index,           \* _process_document local
    in_present_section,    \* _process_document local
    present_names_buffer,  \* _process_document local (mutated in place)
    buffer_at,             \* for each buffered name, the index of its paragraph
    paragraphs_to_correct, \* paragraphs queued for correction (node indices)
    rtrace,                \* _write_latex_file: what each loop iteration did
    markup,                \* the markup written by each call of _write_latex_file
    \* ---- remove_duplicate_columns on its own ----
    tbl_pc, tbl_in, tbl_out,
    \* ---- classifier and escape_latex on their own ----
    txt_pc, txt_in, txt_out,
    \* ---- the page header of one conversion ----
    ttl_pc,                \* position in convert
    ttl_parts,             \* the fields the file name was composed from
    ttl_stem,              \* Path(docx_path).stem
    ttl_first,             \* text of the document's first paragraph
    ttl_title,             \* data['title']
    ttl_first_text,        \* data['first_text']
    ttl_header,            \* what generate_title_header returned
    \* ---- correct_paragraphs_batch on its own (text_corrector.py) ----
    cor_pc,                \* position in correct_paragraphs_batch
    cor_client,            \* self.cohere_client is set
    cor_batch_size,        \* the batch size of the call
    cor_orig,              \* the runs of each paragraph when the call starts
    cor_paras,             \* the runs of each paragraph now
    cor_valid,             \* valid_paragraphs (indices)
    cor_idx,               \* batch_idx
    cor_log,               \* the batches sent so far, each with the call's outcome
    \* ---- the batch caller (gui.py) ----
    gui_pc,                \* position of the worker thread in process_files
    files_to_process,      \* self.files_to_process
    processing,            \* self.processing
    clear_btn,             \* the clear button is enabled
    total_files,           \* process_files local
    gui_i,                 \* number of list items the loop has taken
    success_count,         \* process_files local
    error_count,           \* process_files local
    gui_calls,             \* the calls of convert made by this run, with their outcome
    \* ---- conversions with compilation, on one converter instance ----
    cmp_pc,                \* position in convert / _compile_to_pdf
    latex_packages,        \* config.LATEX_PACKAGES
    cmp_installed,         \* which engines are installed
    cmp_compile_pdf,       \* the compile_pdf argument of the current call
    cmp_headers,           \* the document header written by each call of convert
    cmp_invocations,       \* the engines run by the current _compile_to_pdf
    cmp_missing,           \* the missing .sty names found in combined_output
    cmp_extended,          \* how often the current call extended the package list
    cmp_aux,               \* auxiliary files of the source are in the working dir
    cmp_pdf,               \* pdf_file.exists()
    cmp_pdf_path,          \* what _compile_to_pdf returned
    cmp_result,            \* what convert returned
    \* ---- the embedded images of one paragraph ----
    img_pc,
    img_xml,               \* the drawings in element.xml
    img_elements,          \* the image entries appended to data['elements']
    img_options,           \* the sizing options written for each entry
    \* ---- the outline of one document and its table of contents ----
    toc_pc,
    toc_doc,               \* the paragraphs given to extract_sections_list
    toc_sections,          \* data['sections_list']
    toc_subsections,       \* data['subsections_list']
    toc_lines,             \* what generate_toc returned
    \* ---- one paragraph given to _update_paragraph_text ----
    run_pc,
    run_runs,              \* paragraph.runs before the call: text, bold, italic
    run_new,               \* new_text
    run_after,             \* paragraph.runs after the call
    \* ---- one call of _call_correction_api ----
    wl_pc,
    wl_client,             \* self.cohere_client is set
    wl_config,             \* config.CORRECTION_WHITELIST
    wl_before,             \* its value when the call began
    wl_arg,                \* the whitelist passed to the call
    wl_original,           \* original_whitelist
    wl_prompt,             \* the whitelist the prompt was built with, if built
    wl_exit,               \* how the try statement was left
    wl_result              \* what the call returned

walkVars == <<pc, doc, doc_title, para_text, pos, first_text, elements, sections_list,
              subsections_list, present_names, table_index, in_present_section,
              present_names_buffer, buffer_at, paragraphs_to_correct, rtrace,
              markup>>
tableVars == <<tbl_pc, tbl_in, tbl_out>>
textVars == <<txt_pc, txt_in, txt_out>>
titleVars == <<ttl_pc, ttl_parts, ttl_stem, ttl_first, ttl_title, ttl_first_text,
               ttl_header>>
corVars == <<cor_pc, cor_client, cor_batch_size, cor_orig, cor_paras, cor_valid,
             cor_idx, cor_log>>
guiVars == <<gui_pc, files_to_process, processing, clear_btn, total_files, gui_i,
             success_count, error_count, gui_calls>>
cmpVars == <<cmp_pc, latex_packages, cmp_installed, cmp_compile_pdf, cmp_headers,
             cmp_invocations, cmp_missing, cmp_extended, cmp_aux, cmp_pdf,
             cmp_pdf_path, cmp_result>>
imgVars == <<img_pc, img_xml, img_elements, img_options>>
tocVars == <<toc_pc, toc_doc, toc_sections, toc_subsections, toc_lines>>
runVars == <<run_pc, run_runs, run_new, run_after>>
wlVars == <<wl_pc, wl_client, wl_config, wl_before, wl_arg, wl_original,
           wl_prompt, wl_exit, wl_result>>
vars == <<walkVars, tableVars, textVars, titleVars, corVars, guiVars, cmpVars,
          imgVars, tocVars, runVars, wlVars>>

----------------------------------------------------------------------------
(* Python string primitives on character sequences *)

\* str.strip() whitespace
IsSpace(c) == c \in {" ", "\t", "\n"}

RECURSIVE LStrip(_)
LStrip(t) == IF t # <<>> /\ IsSpace(Head(t)) THEN LStrip(Tail(t)) ELSE t

RECURSIVE RStrip(_)
RStrip(t) ==
    IF t # <<>> /\ IsSpace(t[Len(t)]) THEN RStrip(SubSeq(t, 1, Len(t) - 1)) ELSE t

Strip(t) == RStrip(LStrip(t))

StartsWith(t, p) == Len(t) >= Len(p) /\ SubSeq(t, 1, Len(p)) = p

\* str.find: the first index >= i at which c occurs, Len(t) + 1 when none
RECURSIVE Find(_, _, _)
Find(t, c, i) ==
    IF i > Len(t) THEN Len(t) + 1
    ELSE IF t[i] = c THEN i ELSE Find(t, c, i + 1)

\* text.split(sep, 1)[1] for a one-character sep that occurs in text
AfterFirst(t, c) == SubSeq(t, Find(t, c, 1) + 1, Len(t))

RECURSIVE Concat(_)
Concat(ss) == IF ss = <<>> THEN <<>> ELSE Head(ss) \o Concat(Tail(ss))

Digits == {"0", "1", "2", "3", "4", "5", "6", "7", "8", "9"}
AsciiLetters ==
    {"a", "b", "c", "d", "e", "f", "g", "h", "i", "j", "k", "l", "m",
     "n", "o", "p", "q", "r", "s", "t", "u", "v", "w", "x", "y", "z",
     "A", "B", "C", "D", "E", "F", "G", "H", "I", "J", "K", "L", "M",
     "N", "O", "P", "Q", "R", "S", "T", "U", "V", "W", "X", "Y", "Z"}

----------------------------------------------------------------------------
(* Structural classifier (utils.py, DocumentParser) *)

\* \d+ matched greedily from position i: the position after the digit run
RECURSIVE DigitRunEnd(_, _)
DigitRunEnd(t, i) ==
    IF i <= Len(t) /\ t[i] \in Digits THEN DigitRunEnd(t, i + 1) ELSE i

\* the pattern with \d* instead of \d+
is_section_header_star(t) ==
    LET j == DigitRunEnd(t, 1) IN j <= Len(t) /\ t[j] = ")"

\* re.match(r"^\d+\)", text)
is_section_header(t) ==
    LET j == DigitRunEnd(t, 1) IN j > 1 /\ j <= Len(t) /\ t[j] = ")"

\* re.match(r"^[a-zA-Z]\)", text)
is_subsection_header(t) ==
    Len(t) >= 2 /\ t[1] \in AsciiLetters /\ t[2] = ")"

extract_section_title(t) ==
    IF is_section_header(t) \/ is_subsection_header(t)
    THEN Strip(AfterFirst(t, ")"))
    ELSE t

----------------------------------------------------------------------------
(* Table normaliser (utils.py, TableProcessor) *)

Column(t, j) == [r \in 1..Len(t) |-> t[r][j]]

\* the cells of row that are kept, in order
RECURSIVE KeepCells(_, _, _)
KeepCells(row, remove, i) ==
    IF i > Len(row) THEN <<>>
    ELSE (IF i \in remove THEN <<>> ELSE <<row[i]>>) \o KeepCells(row, remove, i + 1)

\* a variant that compares each column with its left neighbour only
remove_adjacent_duplicate_columns(t) ==
    IF t = <<>> \/ Len(t[1]) <= 1 THEN t
    ELSE LET num_cols == Len(t[1])
             columns_to_remove ==
                 {col2 \in 2..num_cols :
                     \A r \in 1..Len(t) : t[r][col2 - 1] = t[r][col2]}
         IN [r \in 1..Len(t) |-> KeepCells(t[r], columns_to_remove, 1)]

remove_duplicate_columns(t) ==
    IF t = <<>> \/ Len(t[1]) <= 1 THEN t
    ELSE LET num_cols == Len(t[1])
             columns_to_remove ==
                 {col2 \in 2..num_cols :
                     \E col1 \in 1..(num_cols - 1) :
                         /\ col1 < col2
                         /\ \A r \in 1..Len(t) : t[r][col1] = t[r][col2]}
         IN [r \in 1..Len(t) |-> KeepCells(t[r], columns_to_remove, 1)]

----------------------------------------------------------------------------
(* The document: block-level nodes of doc.element.body *)

PRESENTS == <<"P", "r", "é", "s", "e", "n", "t", "s">>
START_TEXT == <<"_", "_">>

Para(t, imgs) == [tag |-> "p", text |-> t, imgs |-> imgs, table |-> <<>>]
Tbl(rows) == [tag |-> "tbl", text |-> <<>>, imgs |-> <<>>, table |-> rows]

\* saved path of the one embedded image of the alphabet (image_map[rid])
ImagePath == <<"o", "/", "i", ".", "p", "n", "g">>

\* The node alphabet: a blank paragraph, the attendee marker, a paragraph with
\* a leading '#' that embeds an image (a name inside an attendee block, a plain
\* paragraph outside), the "__" end marker, a section header, a subsection
\* header, and a table with a duplicated column.
Nodes ==
    { Para(<<" ">>, <<>>),
      Para(PRESENTS, <<>>),
      Para(<<"#", "B", "o", " ">>, <<ImagePath>>),
      Para(START_TEXT, <<>>),
      Para(<<"1", ")", " ", "S">>, <<>>),
      Para(<<"a", ")", "U">>, <<>>),
      Tbl(<< <<"a", "a", "b">> >>) }

MaxDoc == 5

Docs == UNION {[1..n -> Nodes] : n \in 0..MaxDoc}

\* doc.paragraphs: the indices of the paragraph nodes, in order
ParagraphIndices(d) == {i \in 1..Len(d) : d[i].tag = "p"}

\* list(doc.tables)
RECURSIVE TablesFrom(_, _)
TablesFrom(d, i) ==
    IF i > Len(d) THEN <<>>
    ELSE (IF d[i].tag = "tbl" THEN <<d[i].table>> ELSE <<>>) \o TablesFrom(d, i + 1)

Tables(d) == TablesFrom(d, 1)

----------------------------------------------------------------------------
(* Outline scan: DocumentParser.extract_sections_list.  section_title is a  *)
(* local bound by the first section header; reading it before that raises  *)
(* UnboundLocalError (raised = TRUE).                                       *)

RECURSIVE ScanFrom(_, _, _)
ScanFrom(d, i, st) ==
    IF i > Len(d) \/ st.raised THEN st
    ELSE IF d[i].tag # "p" THEN ScanFrom(d, i + 1, st)
    ELSE LET text == Strip(d[i].text) IN
         IF is_section_header(text)
         THEN LET section_title == extract_section_title(text) IN
              ScanFrom(d, i + 1,
                  [st EXCEPT !.sections = Append(@, section_title),
                             !.section_title = <<section_title>>])
         ELSE IF is_subsection_header(text)
         THEN IF st.section_title = <<>>
              THEN [st EXCEPT !.raised = TRUE]
              ELSE ScanFrom(d, i + 1,
                  [st EXCEPT !.subsections =
                      @ \o <<st.section_title[1], extract_section_title(text)>>])
         ELSE ScanFrom(d, i + 1, st)

extract_sections_list(d) ==
    ScanFrom(d, 1, [sections |-> <<>>, subsections |-> <<>>,
                    section_title |-> <<>>, raised |-> FALSE])

----------------------------------------------------------------------------
(* Text sanitiser (utils.py, TextProcessor; config.py) *)

\* the table with the '~' entry moved in front of the brace entries
LATEX_SPECIAL_CHARS_tilde_first ==
    <<
       <<"~", <<"\\", "t", "e", "x", "t", "a", "s", "c", "i", "i", "t", "i", "l", "d", "e", "{", "}">>>>,
       <<"&", <<"\\", "&">>>>,
       <<"%", <<"\\", "%">>>>,
       <<"$", <<"\\", "$">>>>,
       <<"#", <<"\\", "#">>>>,
       <<"_", <<"\\", "_">>>>,
       <<"{", <<"\\", "{">>>>,
       <<"}", <<"\\", "}">>>>,
       <<"^", <<"\\", "t", "e", "x", "t", "a", "s", "c", "i", "i", "c", "i", "r", "c", "u", "m", "{", "}">>>>,
       <<"€", <<"\\", "e", "u", "r", "o", "{", "}">>>>,
       <<"<", <<"\\", "t", "e", "x", "t", "l", "e", "s", "s", "{", "}">>>>,
       <<">", <<"\\", "t", "e", "x", "t", "g", "r", "e", "a", "t", "e", "r", "{", "}">>>>,
       <<"°", <<"\\", "t", "e", "x", "t", "d", "e", "g", "r", "e", "e", "{", "}">>>>
    >>

\* Config.LATEX_SPECIAL_CHARS, the built-in default, in insertion order:
\* <<character, replacement>>
LATEX_SPECIAL_CHARS ==
    <<
       <<"&", <<"\\", "&">>>>,
       <<"%", <<"\\", "%">>>>,
       <<"$", <<"\\", "$">>>>,
       <<"#", <<"\\", "#">>>>,
       <<"_", <<"\\", "_">>>>,
       <<"{", <<"\\", "{">>>>,
       <<"}", <<"\\", "}">>>>,
       <<"~", <<"\\", "t", "e", "x", "t", "a", "s", "c", "i", "i", "t", "i", "l", "d", "e", "{", "}">>>>,
       <<"^", <<"\\", "t", "e", "x", "t", "a", "s", "c", "i", "i", "c", "i", "r", "c", "u", "m", "{", "}">>>>,
       <<"€", <<"\\", "e", "u", "r", "o", "{", "}">>>>,
       <<"<", <<"\\", "t", "e", "x", "t", "l", "e", "s", "s", "{", "}">>>>,
       <<">", <<"\\", "t", "e", "x", "t", "g", "r", "e", "a", "t", "e", "r", "{", "}">>>>,
       <<"°", <<"\\", "t", "e", "x", "t", "d", "e", "g", "r", "e", "e", "{", "}">>>>
    >>

RECURSIVE ReplaceFrom(_, _, _, _)
ReplaceFrom(t, c, r, i) ==
    IF i > Len(t) THEN <<>>
    ELSE (IF t[i] = c THEN r ELSE <<t[i]>>) \o ReplaceFrom(t, c, r, i + 1)

\* text.replace(char, replacement) for a one-character char; a text without
\* the character is returned as it is
Replace(t, c, r) ==
    IF \A i \in 1..Len(t) : t[i] # c THEN t ELSE ReplaceFrom(t, c, r, 1)

\* the loop of escape_latex over the first k entries of the table
RECURSIVE EscapeLoop(_, _, _)
EscapeLoop(t, tbl, k) ==
    IF k = 0 THEN t
    ELSE Replace(EscapeLoop(t, tbl, k - 1), tbl[k][1], tbl[k][2])

escape_latex(t) ==
    IF t = <<>> THEN t
    ELSE EscapeLoop(t, LATEX_SPECIAL_CHARS, Len(LATEX_SPECIAL_CHARS))

LowerCase ==
    <<"a", "b", "c", "d", "e", "f", "g", "h", "i", "j", "k", "l", "m",
      "n", "o", "p", "q", "r", "s", "t", "u", "v", "w", "x", "y", "z", "é">>
UpperCase ==
    <<"A", "B", "C", "D", "E", "F", "G", "H", "I", "J", "K", "L", "M",
      "N", "O", "P", "Q", "R", "S", "T", "U", "V", "W", "X", "Y", "Z", "É">>

\* str.upper() of one character
Upper(c) ==
    IF \E i \in 1..Len(LowerCase) : LowerCase[i] = c
    THEN UpperCase[CHOOSE i \in 1..Len(LowerCase) : LowerCase[i] = c]
    ELSE c

capitalize_first_letter(t) ==
    IF t # <<>> THEN <<Upper(t[1])>> \o Tail(t) ELSE t

\* replace_abbreviations with the default type ["begin", "end"], on a text
\* in which no pattern of ABBREVIATIONS occurs
replace_abbreviations(t) ==
    IF t = <<>> THEN t
    ELSE LET ended == IF RStrip(t) # <<>> /\ RStrip(t)[Len(RStrip(t))] \in {".", "?", "!"}
                      THEN t
                      ELSE RStrip(t) \o <<".">>
         IN <<Upper(ended[1])>> \o Tail(ended)

----------------------------------------------------------------------------
(* Title parsing and page header (utils.py DocumentParser.parse_title,      *)
(* calculate_academic_year; latex_generator.py generate_title_header)      *)

DigitSeq == <<"0", "1", "2", "3", "4", "5", "6", "7", "8", "9">>
DigitVal(c) == (CHOOSE i \in 1..10 : DigitSeq[i] = c) - 1

\* int(s) for a string of decimal digits
RECURSIVE ToInt(_)
ToInt(s) ==
    IF s = <<>> THEN 0
    ELSE 10 * ToInt(SubSeq(s, 1, Len(s) - 1)) + DigitVal(s[Len(s)])

RECURSIVE NatToStr(_)
NatToStr(n) ==
    IF n < 10 THEN <<DigitSeq[n + 1]>>
    ELSE NatToStr(n \div 10) \o <<DigitSeq[(n % 10) + 1]>>

\* str(n)
IntToStr(n) == IF n < 0 THEN <<"-">> \o NatToStr(0 - n) ELSE NatToStr(n)

RomanLetters == {"I", "V", "X", "L", "C", "D", "M"}

RECURSIVE RomanRunEnd(_, _)
RomanRunEnd(t, i) ==
    IF i <= Len(t) /\ t[i] \in RomanLetters THEN RomanRunEnd(t, i + 1) ELSE i

\* the literal lit occurs in t at position i
LitAt(t, i, l) == i + Len(l) - 1 <= Len(t) /\ SubSeq(t, i, i + Len(l) - 1) = l

AllDigits(t, i, n) == i + n - 1 <= Len(t) /\ \A k \in i..(i + n - 1) : t[k] \in Digits

LIT_PV_RC ==
    <<"P", "V", " ", "R", "C", " ">>
LIT_ANNO ==
    <<" ", "-", " ", "A", "n", "n", "o", " ">>
LIT_DASH ==
    <<" ", "-", " ">>

\* the fields in month/day/year order
date_formatee_mdy(jour, mois, annee) == mois \o <<"/">> \o jour \o <<"/">> \o annee

\* line 91: f"{jour}/{mois}/{annee}"
date_formatee(jour, mois, annee) == jour \o <<"/">> \o mois \o <<"/">> \o annee

NoMatch ==
    [ok |-> FALSE, numero_reunion |-> <<>>, anno |-> <<>>, annee |-> <<>>,
     mois |-> <<>>, jour |-> <<>>, date_formatee |-> <<>>]

\* re.match(r"PV RC (\d+) - Anno (LIX|[IVXLCDM]+) - (\d{4})-(\d{2})-(\d{2})", title)
\* ok = FALSE stands for the ValueError.  Each repetition is followed by a
\* literal that starts with a character outside its class, so only the longest
\* run can match; the alternative LIX is a run of the second alternative.
parse_title(title) ==
    IF ~LitAt(title, 1, LIT_PV_RC) THEN NoMatch
    ELSE LET n0 == Len(LIT_PV_RC) + 1
             n1 == DigitRunEnd(title, n0)
         IN
         IF n1 = n0 \/ ~LitAt(title, n1, LIT_ANNO) THEN NoMatch
         ELSE LET a0 == n1 + Len(LIT_ANNO)
                  a1 == RomanRunEnd(title, a0)
              IN
              IF a1 = a0 \/ ~LitAt(title, a1, LIT_DASH) THEN NoMatch
              ELSE LET y == a1 + Len(LIT_DASH) IN
                   IF /\ AllDigits(title, y, 4)
                      /\ LitAt(title, y + 4, <<"-">>)
                      /\ AllDigits(title, y + 5, 2)
                      /\ LitAt(title, y + 7, <<"-">>)
                      /\ AllDigits(title, y + 8, 2)
                   THEN LET annee == SubSeq(title, y, y + 3)
                            mois == SubSeq(title, y + 5, y + 6)
                            jour == SubSeq(title, y + 8, y + 9)
                        IN [ok |-> TRUE,
                            numero_reunion |-> SubSeq(title, n0, n1 - 1),
                            anno |-> SubSeq(title, a0, a1 - 1),
                            annee |-> annee, mois |-> mois, jour |-> jour,
                            date_formatee |-> date_formatee(jour, mois, annee)]
                   ELSE NoMatch

\* the comparison with >= instead of >
calculate_academic_year_ge(year, month) ==
    IF ToInt(month) >= 6
    THEN year \o LIT_DASH \o IntToStr(ToInt(year) + 1)
    ELSE IntToStr(ToInt(year) - 1) \o LIT_DASH \o year

calculate_academic_year(year, month) ==
    IF ToInt(month) > 6
    THEN year \o LIT_DASH \o IntToStr(ToInt(year) + 1)
    ELSE IntToStr(ToInt(year) - 1) \o LIT_DASH \o year

HEAD_LEFT ==
    <<"\\", "f", "a", "n", "c", "y", "h", "e", "a", "d", "[", "L", "]", "{",
      "C", "B", "B", " ", "-", " ", "A", "n", "n", "o", " ">>
HEAD_HFILL ==
    <<" ", "\\", "h", "f", "i", "l", "l", " ">>
HEAD_MID ==
    <<" ", "\n", "\n", "}", " ", "\\", "f", "a", "n", "c", "y", "h", "e",
      "a", "d", "[", "R", "]", "{", "R", "é", "u", "n", "i", "o", "n", " ",
      "C", "o", "m", "i", "t", "é", " ", "n", "°", " ">>
HEAD_CENTER ==
    <<"\\", "f", "a", "n", "c", "y", "h", "e", "a", "d", "[", "C", "]",
      "{">>

generate_title_header(title) ==
    LET components == parse_title(title) IN
    IF components.ok
    THEN LET annee_univ ==
                 calculate_academic_year(components.annee, components.mois)
         IN HEAD_LEFT \o components.anno \o HEAD_HFILL \o annee_univ
            \o HEAD_MID \o components.numero_reunion
            \o HEAD_HFILL \o components.date_formatee \o <<"}">>
    ELSE HEAD_CENTER \o escape_latex(title) \o <<"}">>

----------------------------------------------------------------------------
(* Document walker (converter.py, _process_document / _process_element) *)

\* an entry of data['elements']; para is the index of the paragraph object the
\* element refers to (0 when it has none).  Two fields record where the entry
\* comes from: at is the index of the body node whose processing appended it,
\* src the indices of the body nodes whose content it carries
ElFrom(type, text, names, data, para, at, src) ==
    [type |-> type, text |-> text, names |-> names, data |-> data,
     para |-> para, at |-> at, src |-> src]

\* a walker that emits the paragraph ending the attendee block as a Paragraph
El_terminator_as_paragraph(type, text, names, data, para, at) ==
    ElFrom(IF type = "start_text" THEN "paragraph" ELSE type,
           text, names, data, para, at, <<at>>)

El(type, text, names, data, para, at) ==
    ElFrom(type, text, names, data, para, at, <<at>>)

\* the image entries appended for the embedded images of node i (lines 436-459)
RECURSIVE ImageElements(_, _, _)
ImageElements(imgs, k, i) ==
    IF k > Len(imgs) THEN <<>>
    ELSE <<El("image", imgs[k], <<>>, <<>>, 0, i)>> \o ImageElements(imgs, k + 1, i)

\* the Title test without the "text" conjunct
IsFirstText_any(ft, text) == ft = <<>>

\* line 469: data['first_text'] is None and text
IsFirstText(ft, text) == ft = <<>> /\ text # <<>>

ProcessTable(i) ==
    LET tables == Tables(doc) IN
    /\ IF table_index < Len(tables)
       THEN /\ table_index' = table_index + 1
            /\ elements' = Append(elements,
                   El("table", <<>>, <<>>,
                      remove_duplicate_columns(tables[table_index + 1]), 0, i))
       ELSE UNCHANGED <<table_index, elements>>
    /\ UNCHANGED <<first_text, in_present_section, present_names_buffer,
                   buffer_at, present_names, paragraphs_to_correct>>

ProcessParagraph(i) ==
    LET text == Strip(para_text[i])
        withImages == elements \o ImageElements(doc[i].imgs, 1, i)
    IN
    /\ table_index' = table_index
    /\ IF IsFirstText(first_text, text)
       THEN /\ first_text' = <<text>>
            /\ elements' = Append(withImages, El("title", text, <<>>, <<>>, 0, i))
            /\ UNCHANGED <<in_present_section, present_names_buffer, buffer_at,
                           present_names, paragraphs_to_correct>>
       ELSE IF StartsWith(text, PRESENTS)
       THEN /\ in_present_section' = TRUE
            /\ elements' = withImages
            /\ UNCHANGED <<first_text, present_names_buffer, buffer_at,
                           present_names, paragraphs_to_correct>>
       ELSE IF in_present_section
       THEN IF text = <<>> \/ StartsWith(text, START_TEXT)
            THEN /\ in_present_section' = FALSE
                 /\ present_names' = present_names_buffer
                 /\ elements' =
                        withImages
                        \o <<ElFrom("present_section", <<>>, present_names_buffer,
                                    <<>>, 0, i, buffer_at)>>
                        \o (IF StartsWith(text, START_TEXT)
                            THEN <<El("start_text", text, <<>>, <<>>, 0, i)>>
                            ELSE <<>>)
                 /\ present_names_buffer' = <<>>
                 /\ buffer_at' = <<>>
                 /\ UNCHANGED <<first_text, paragraphs_to_correct>>
            ELSE /\ present_names_buffer' = Append(present_names_buffer, text)
                 /\ buffer_at' = Append(buffer_at, i)
                 /\ elements' = withImages
                 /\ UNCHANGED <<first_text, in_present_section, present_names,
                                paragraphs_to_correct>>
       ELSE IF text # <<>>
       THEN /\ paragraphs_to_correct' = Append(paragraphs_to_correct, i)
            /\ elements' = Append(withImages,
                   IF is_section_header(text)
                   THEN El("section", extract_section_title(text), <<>>, <<>>, i, i)
                   ELSE IF is_subsection_header(text)
                   THEN El("subsection", extract_section_title(text), <<>>, <<>>, i, i)
                   ELSE El("paragraph", <<>>, <<>>, <<>>, i, i))
            /\ UNCHANGED <<first_text, in_present_section, present_names_buffer,
                           buffer_at, present_names>>
       ELSE /\ elements' = withImages
            /\ UNCHANGED <<first_text, in_present_section, present_names_buffer,
                           buffer_at, present_names, paragraphs_to_correct>>

----------------------------------------------------------------------------
(* Markup renderer (converter.py _write_latex_file; latex_generator.py).   *)
(* The markup is the sequence of blocks written, each with the text it      *)
(* carries; the fixed LaTeX around that text is named by the block's kind.  *)

Block(kind, arg) == [kind |-> kind, arg |-> arg]

\* the while loop of generate_toc for one section: pops the matching pairs
\* off the front of subsections
RECURSIVE TocSubsections(_, _)
TocSubsections(section, subsections) ==
    IF subsections # <<>> /\ StartsWith(subsections[1], section)
    THEN LET sub == subsections[2]
             rest == TocSubsections(section, SubSeq(subsections, 3, Len(subsections)))
         IN [lines |-> <<Block("toc_subsection", escape_latex(sub))>> \o rest.lines,
             subsections |-> rest.subsections]
    ELSE [lines |-> <<>>, subsections |-> subsections]

RECURSIVE TocSections(_, _, _)
TocSections(sections, i, subsections) ==
    IF i > Len(sections) THEN [lines |-> <<>>, subsections |-> subsections]
    ELSE LET own == TocSubsections(sections[i], subsections)
             rest == TocSections(sections, i + 1, own.subsections)
         IN [lines |->
                 <<Block("toc_section",
                         capitalize_first_letter(escape_latex(sections[i])))>>
                 \o own.lines \o rest.lines,
             subsections |-> rest.subsections]

\* generate_toc: the lines written and the subsections list as the call leaves it
generate_toc(sections, subsections) ==
    IF sections = <<>> THEN [lines |-> <<>>, subsections |-> subsections]
    ELSE LET r == TocSections(sections, 1, subsections)
         IN [lines |-> <<Block("toc_begin", <<>>)>> \o r.lines
                       \o <<Block("toc_end", <<>>)>>,
             subsections |-> r.subsections]

generate_logo_section == <<Block("logo", <<>>)>>

\* lines 583-589: strip, drop the empty names, remove one leading '#'
RECURSIVE CleanedNames(_)
CleanedNames(names) ==
    IF names = <<>> THEN <<>>
    ELSE LET name == Strip(Head(names)) IN
         (IF name = <<>> THEN <<>>
          ELSE IF StartsWith(name, <<"#">>) THEN <<Strip(Tail(name))>>
          ELSE <<name>>)
         \o CleanedNames(Tail(names))

\* names.index(name)
FirstIndexOf(names, name) == CHOOSE i \in 1..Len(names) :
    names[i] = name /\ \A j \in 1..(i - 1) : names[j] # name

RECURSIVE PresentLines(_, _)
PresentLines(names, k) ==
    IF k > Len(names) THEN <<>>
    ELSE LET escaped_name == escape_latex(Strip(names[k])) IN
         (IF escaped_name = <<>> THEN <<>>
          ELSE IF FirstIndexOf(names, names[k]) < Len(names)
          THEN <<Block("present_name", escaped_name)>>
          ELSE <<Block("present_name_last", escaped_name)>>)
         \o PresentLines(names, k + 1)

generate_present_section(names) ==
    IF names = <<>> THEN <<>>
    ELSE <<Block("present_begin", <<>>)>> \o PresentLines(names, 1)
         \o <<Block("present_end", <<>>)>>

generate_table(table_data) ==
    IF table_data = <<>> \/ table_data[1] = <<>> THEN <<>>
    ELSE <<Block("table_begin", <<>>)>>
         \o [r \in 1..Len(table_data) |-> Block("table_row", table_data[r])]
         \o <<Block("table_end", <<>>)>>

\* Path(img_path).name
RECURSIVE Basename(_)
Basename(path) ==
    IF Find(path, "/", 1) > Len(path) THEN path ELSE Basename(AfterFirst(path, "/"))

\* _format_paragraph_with_runs for a paragraph of one plain run whose text
\* holds no ':' (the texts of Nodes hold none)
format_paragraph_with_runs(text) ==
    LET run_text == replace_abbreviations(escape_latex(Strip(text)))
    IN IF run_text # <<>> /\ Strip(run_text) # <<>>
       THEN <<Block("paragraph", Strip(run_text))>>
       ELSE <<>>

\* the test without the toc_inserted latch
TocDue_no_latch(toc_inserted, sections) == sections # <<>>

\* line 598: if not toc_inserted and data['sections_list']
TocDue(toc_inserted, sections) == ~toc_inserted /\ sections # <<>>

\* line 596: elif elem_type == 'start_text' or present_inserted
TocBranch(elem_type, present_inserted) ==
    elem_type = "start_text" \/ present_inserted

\* one iteration of the loop of _write_latex_file (lines 549-617) on element e,
\* from the loop state st = [toc_inserted, present_inserted, subsections]
RenderElement(st, e, sections, texts) ==
    LET same == [toc_inserted |-> st.toc_inserted,
                 present_inserted |-> st.present_inserted,
                 subsections |-> st.subsections, wrote |-> <<>>]
    IN
    IF e.type = "title"
    THEN [same EXCEPT !.wrote = <<Block("title", escape_latex(e.text))>>]
    ELSE IF e.type = "table"
    THEN [same EXCEPT !.wrote = generate_table(e.data)]
    ELSE IF e.type = "image"
    THEN [same EXCEPT !.wrote =
              IF e.text # <<>> THEN <<Block("figure", Basename(e.text))>> ELSE <<>>]
    ELSE IF e.type = "present_section"
    THEN [same EXCEPT !.wrote = generate_present_section(CleanedNames(e.names)),
                      !.present_inserted = TRUE]
    ELSE IF TocBranch(e.type, st.present_inserted)
    THEN IF TocDue(st.toc_inserted, sections)
         THEN LET toc == generate_toc(sections, st.subsections)
              IN [toc_inserted |-> TRUE, present_inserted |-> FALSE,
                  subsections |-> toc.subsections,
                  wrote |-> toc.lines \o generate_logo_section]
         ELSE [same EXCEPT !.present_inserted = FALSE]
    ELSE IF e.type = "section"
    THEN [same EXCEPT !.wrote =
              <<Block("section", capitalize_first_letter(escape_latex(e.text)))>>]
    ELSE IF e.type = "subsection"
    THEN [same EXCEPT !.wrote =
              <<Block("subsection", capitalize_first_letter(escape_latex(e.text)))>>]
    ELSE IF e.type = "paragraph"
    THEN [same EXCEPT !.wrote = format_paragraph_with_runs(texts[e.para])]
    ELSE same

\* the loop: the state after each iteration, with what the iteration wrote
RECURSIVE RenderLoop(_, _, _, _, _)
RenderLoop(st, els, k, sections, texts) ==
    IF k > Len(els) THEN <<>>
    ELSE LET next == RenderElement(st, els[k], sections, texts)
         IN <<next>> \o RenderLoop(next, els, k + 1, sections, texts)

RECURSIVE Written(_, _)
Written(trace, k) ==
    IF k > Len(trace) THEN <<>> ELSE trace[k].wrote \o Written(trace, k + 1)

----------------------------------------------------------------------------
(* Text corrector (text_corrector.py).  A paragraph is the sequence of the  *)
(* texts of its runs; paragraph.text is their concatenation.                *)

BATCH_SEPARATOR == <<"#", "S", "E", "P", "#">>

\* sep.join(texts)
RECURSIVE Join(_, _)
Join(texts, sep) ==
    IF texts = <<>> THEN <<>>
    ELSE IF Len(texts) = 1 THEN texts[1]
    ELSE texts[1] \o sep \o Join(Tail(texts), sep)

\* text.split(sep) for a non-empty sep: the pieces from index i on, the
\* current piece starting at index start
RECURSIVE SplitFrom(_, _, _, _)
SplitFrom(t, sep, start, i) ==
    IF i + Len(sep) - 1 > Len(t) THEN <<SubSeq(t, start, Len(t))>>
    ELSE IF SubSeq(t, i, i + Len(sep) - 1) = sep
    THEN <<SubSeq(t, start, i - 1)>> \o SplitFrom(t, sep, i + Len(sep), i + Len(sep))
    ELSE SplitFrom(t, sep, start, i + 1)

Split(t, sep) == SplitFrom(t, sep, 1, 1)

\* paragraph.text
ParagraphText(runs) == Concat(runs)

\* Double-precision arithmetic of lines 196-197.  A 53-bit mantissa is kept
\* in three limbs, hi (the leading 17 bits), mid and lo (18 bits each).
MANTISSA_BITS == 53
LIMB == 2 ^ 18
HI_BITS == MANTISSA_BITS - 36

\* the number of binary places before the first 1 of r / t (0 < r < t)
RECURSIVE LeadingZeros(_, _)
LeadingZeros(r, t) == IF 2 * r >= t THEN 0 ELSE 1 + LeadingZeros(2 * r, t)

\* the number of bits of a positive number
RECURSIVE BitLength(_)
BitLength(n) == IF n = 0 THEN 0 ELSE 1 + BitLength(n \div 2)

\* limbs plus unit in the lowest limb (unit divides LIMB)
AddLow(m, unit) ==
    LET lo == m.lo + unit
        mid == m.mid + (IF lo >= LIMB THEN 1 ELSE 0)
    IN [hi |-> m.hi + (IF mid >= LIMB THEN 1 ELSE 0),
        mid |-> mid % LIMB, lo |-> lo % LIMB]

\* r / t (0 < r < t) rounded to the nearest double, ties to even:
\* the value is (hi * LIMB * LIMB + mid * LIMB + lo) * 2 ^ -(zeros + 53)
FloatDivide(r, t) ==
    LET zeros == LeadingZeros(r, t)
        n1 == r * (2 ^ zeros) * (2 ^ HI_BITS)
        n2 == (n1 % t) * LIMB
        n3 == (n2 % t) * LIMB
        q == [hi |-> n1 \div t, mid |-> n2 \div t, lo |-> n3 \div t]
        rem == n3 % t
    IN [zeros |-> zeros,
        m |-> IF 2 * rem > t \/ (2 * rem = t /\ q.lo % 2 = 1)
              THEN AddLow(q, 1) ELSE q]

\* int(n * (r / t)) for 0 < r < t and 0 < n < 64: the quotient times n,
\* rounded to 53 bits (ties to even), and the integer part of that
FloatShare(n, r, t) ==
    LET q == FloatDivide(r, t)
        lo == q.m.lo * n
        mid == q.m.mid * n + lo \div LIMB
        exact == [hi |-> q.m.hi * n + mid \div LIMB,
                  mid |-> mid % LIMB, lo |-> lo % LIMB]
        extra == BitLength(exact.hi) - HI_BITS
        unit == 2 ^ extra
        dropped == exact.lo % unit
        floor == [exact EXCEPT !.lo = exact.lo - dropped]
        product ==
            IF extra <= 0 THEN exact
            ELSE IF 2 * dropped > unit
                    \/ (2 * dropped = unit /\ (exact.lo \div unit) % 2 = 1)
            THEN AddLow(floor, unit) ELSE floor
    IN product.hi \div (2 ^ (q.zeros + HI_BITS))

\* int(len(new_text) * (len(run.text) / total_length)), total_length > 0
chars_to_take(new_len, run_len, total_length) ==
    IF new_len = 0 \/ run_len = 0 THEN 0
    ELSE IF run_len = total_length THEN new_len
    ELSE FloatShare(new_len, run_len, total_length)

\* _distribute_text_across_runs, lines 184-199, from run i on
RECURSIVE DistributeFrom(_, _, _, _, _)
DistributeFrom(runs, new_text, remaining_text, i, total_length) ==
    IF i > Len(runs) THEN <<>>
    ELSE IF remaining_text = <<>>
    THEN <<<<>>>> \o DistributeFrom(runs, new_text, <<>>, i + 1, total_length)
    ELSE IF i = Len(runs) THEN <<remaining_text>>
    ELSE LET share == chars_to_take(Len(new_text), Len(runs[i]), total_length)
             taken == IF share < Len(remaining_text)
                      THEN share ELSE Len(remaining_text)
         IN <<SubSeq(remaining_text, 1, taken)>>
            \o DistributeFrom(runs, new_text,
                              SubSeq(remaining_text, taken + 1, Len(remaining_text)),
                              i + 1, total_length)

distribute_text_across_runs(runs, new_text) ==
    LET total_length == Len(Concat(runs)) IN
    IF total_length = 0
    THEN <<new_text>> \o [k \in 1..(Len(runs) - 1) |-> <<>>]
    ELSE DistributeFrom(runs, new_text, new_text, 1, total_length)

\* _update_paragraph_text: the runs of the paragraph after the call
update_paragraph_text(runs, new_text) ==
    IF Len(runs) = 1 THEN <<new_text>>
    ELSE IF Len(runs) = 0 THEN <<new_text>>
    ELSE distribute_text_across_runs(runs, new_text)

\* what cohere_client.chat does with the joined text: it raises, or it
\* answers with a text (here: nothing, every piece with an 's' appended, the
\* same followed by one more piece, or the first piece only)
ChatOutcomes == {"raises", "empty", "corrected", "one_more", "first_only"}

ChatAnswer(outcome, text) ==
    LET pieces == Split(text, BATCH_SEPARATOR) IN
    IF outcome = "empty" THEN <<>>
    ELSE IF outcome = "corrected"
    THEN Join([k \in 1..Len(pieces) |-> pieces[k] \o <<"s">>], BATCH_SEPARATOR)
    ELSE IF outcome = "one_more"
    THEN Join([k \in 1..Len(pieces) |-> pieces[k] \o <<"s">>], BATCH_SEPARATOR)
         \o BATCH_SEPARATOR \o <<"x">>
    ELSE pieces[1]

\* _call_correction_api with a client (lines 125-146): the answer stripped,
\* or the text it was given when the call raises
call_correction_api(outcome, text) ==
    IF outcome = "raises" THEN text ELSE Strip(ChatAnswer(outcome, text))

\* _correct_batch: batch is a sequence of paragraph indices; the runs of
\* every paragraph after the call
correct_batch(paras, batch, outcome) ==
    IF batch = <<>> THEN paras
    ELSE LET texts == [k \in 1..Len(batch) |-> Strip(ParagraphText(paras[batch[k]]))]
             corrected_text == call_correction_api(outcome, Join(texts, BATCH_SEPARATOR))
         IN
         IF corrected_text = <<>> THEN paras
         ELSE LET corrected_texts == Split(corrected_text, BATCH_SEPARATOR) IN
              [p \in 1..Len(paras) |->
                  IF \E k \in 1..Len(batch) :
                         batch[k] = p /\ k <= Len(corrected_texts)
                  THEN LET k == CHOOSE k \in 1..Len(batch) : batch[k] = p
                       IN update_paragraph_text(paras[p], Strip(corrected_texts[k]))
                  ELSE paras[p]]

\* a corrector that also sends the blank paragraphs
ValidParagraphs_all(paras, i) == [k \in 1..(Len(paras) - i + 1) |-> k + i - 1]

\* line 51: the indices of the paragraphs whose text is not blank, in order
RECURSIVE ValidParagraphs(_, _)
ValidParagraphs(paras, i) ==
    IF i > Len(paras) THEN <<>>
    ELSE (IF Strip(ParagraphText(paras[i])) # <<>> THEN <<i>> ELSE <<>>)
         \o ValidParagraphs(paras, i + 1)

----------------------------------------------------------------------------
(* One conversion: convert -> _process_document -> _write_latex_file *)

\* the stem of the converted file's name
DocStem == <<"p", "v">>

WalkInit ==
    /\ pc = "load"
    /\ doc \in Docs
    /\ doc_title = DocStem
    /\ para_text = [i \in 1..Len(doc) |-> doc[i].text]
    /\ pos = 0
    /\ first_text = <<>>
    /\ elements = <<>>
    /\ sections_list = <<>>
    /\ subsections_list = <<>>
    /\ present_names = <<>>
    /\ table_index = 0
    /\ in_present_section = FALSE
    /\ present_names_buffer = <<>>
    /\ buffer_at = <<>>
    /\ paragraphs_to_correct = <<>>
    /\ rtrace = <<>>
    /\ markup = <<>>

\* convert lines 113-123: Document(docx_path) opens the file, the title is its
\* stem, the output directories exist
LoadDocument ==
    /\ pc = "load"
    /\ pc' = "images"
    /\ UNCHANGED <<doc, doc_title, para_text, pos, first_text, elements, sections_list,
                   subsections_list, present_names, table_index,
                   in_present_section, present_names_buffer, buffer_at,
                   paragraphs_to_correct, rtrace, markup>>

\* convert line 113: Document(docx_path) raises, convert logs and re-raises
LoadDocumentRaises ==
    /\ pc = "load"
    /\ pc' = "failed"
    /\ UNCHANGED <<doc, doc_title, para_text, pos, first_text, elements, sections_list,
                   subsections_list, present_names, table_index,
                   in_present_section, present_names_buffer, buffer_at,
                   paragraphs_to_correct, rtrace, markup>>

\* convert line 128: _extract_images saves the pictures and returns the map
\* (every exception is swallowed); the nodes of doc name the saved files
ExtractImages ==
    /\ pc = "images"
    /\ pc' = "scan"
    /\ UNCHANGED <<doc, doc_title, para_text, pos, first_text, elements, sections_list,
                   subsections_list, present_names, table_index,
                   in_present_section, present_names_buffer, buffer_at,
                   paragraphs_to_correct, rtrace, markup>>

\* _process_document line 369, the scan returns
ScanOutline ==
    /\ pc = "scan"
    /\ LET r == extract_sections_list(doc) IN
       /\ ~r.raised
       /\ sections_list' = r.sections
       /\ subsections_list' = r.subsections
    /\ pc' = "walk"
    /\ UNCHANGED <<doc, doc_title, para_text, pos, first_text, elements, present_names,
                   table_index, in_present_section, present_names_buffer,
                   buffer_at, paragraphs_to_correct, rtrace, markup>>

\* _process_document line 369, the scan raises: convert logs and re-raises
ScanOutlineRaises ==
    /\ pc = "scan"
    /\ extract_sections_list(doc).raised
    /\ pc' = "failed"
    /\ UNCHANGED <<doc, doc_title, para_text, pos, first_text, elements, sections_list,
                   subsections_list, present_names, table_index,
                   in_present_section, present_names_buffer, buffer_at,
                   paragraphs_to_correct, rtrace, markup>>

\* one iteration of the loop of _process_document (lines 380-394)
ProcessElement ==
    /\ pc = "walk"
    /\ pos < Len(doc)
    /\ pos' = pos + 1
    /\ IF doc[pos + 1].tag = "tbl"
       THEN ProcessTable(pos + 1)
       ELSE ProcessParagraph(pos + 1)
    /\ UNCHANGED <<pc, doc, doc_title, para_text, sections_list, subsections_list,
                   rtrace, markup>>

\* a correction pass that does not wait for the end of the loop
CorrectParagraphs_early ==
    /\ pc = "walk"
    /\ paragraphs_to_correct # <<>>
    /\ pc' = "render"
    /\ UNCHANGED <<doc, doc_title, para_text, pos, first_text, elements, sections_list,
                   subsections_list, present_names, table_index,
                   in_present_section, present_names_buffer, buffer_at,
                   paragraphs_to_correct, rtrace, markup>>

\* lines 396-399: the loop is over and paragraphs were queued;
\* correct_paragraphs_batch on them: there is no client, or the queue (shorter
\* than BATCH_SIZE) goes out as one batch and the call raises or answers.
\* Each paragraph of Nodes has one run.
CorrectParagraphs ==
    /\ pc = "walk"
    /\ pos = Len(doc)
    /\ paragraphs_to_correct # <<>>
    /\ \E outcome \in {"no_client", "raises", "corrected"} :
          para_text' =
              IF outcome = "no_client" THEN para_text
              ELSE LET queue == [k \in 1..Len(paragraphs_to_correct) |->
                                    <<para_text[paragraphs_to_correct[k]]>>]
                       after == correct_batch(queue, ValidParagraphs(queue, 1), outcome)
                   IN [i \in 1..Len(doc) |->
                          IF \E k \in 1..Len(paragraphs_to_correct) :
                                 paragraphs_to_correct[k] = i
                          THEN after[CHOOSE k \in 1..Len(paragraphs_to_correct) :
                                         paragraphs_to_correct[k] = i][1]
                          ELSE para_text[i]]
    /\ pc' = "render"
    /\ UNCHANGED <<doc, doc_title, pos, first_text, elements, sections_list,
                   subsections_list, present_names, table_index,
                   in_present_section, present_names_buffer, buffer_at,
                   paragraphs_to_correct, rtrace, markup>>

\* lines 397-401: the loop is over and nothing was queued
SkipCorrection ==
    /\ pc = "walk"
    /\ pos = Len(doc)
    /\ paragraphs_to_correct = <<>>
    /\ pc' = "render"
    /\ UNCHANGED <<doc, doc_title, para_text, pos, first_text, elements,
                   sections_list, subsections_list, present_names, table_index,
                   in_present_section, present_names_buffer, buffer_at,
                   paragraphs_to_correct, rtrace, markup>>

\* the body of _write_latex_file(path, data): header, the loop, footer
Render ==
    \E trace \in {RenderLoop([toc_inserted |-> FALSE, present_inserted |-> FALSE,
                              subsections |-> subsections_list],
                             elements, 1, sections_list, para_text)} :
        /\ rtrace' = trace
        /\ markup' = Append(markup,
               <<Block("document_header", <<>>),
                 Block("title_header", generate_title_header(doc_title))>>
               \o Written(trace, 1)
               \o <<Block("document_footer", <<>>)>>)
        /\ subsections_list' =
               IF trace = <<>> THEN subsections_list
               ELSE trace[Len(trace)].subsections

\* convert line 137
WriteLatexFile ==
    /\ pc = "render"
    /\ Render
    /\ pc' = "done"
    /\ UNCHANGED <<doc, doc_title, para_text, pos, first_text, elements,
                   sections_list, present_names, table_index, in_present_section,
                   present_names_buffer, buffer_at, paragraphs_to_correct>>

\* _write_latex_file run a second time on the same data
WriteLatexFileAgain ==
    /\ pc = "done"
    /\ Render
    /\ pc' = "rendered_twice"
    /\ UNCHANGED <<doc, doc_title, para_text, pos, first_text, elements,
                   sections_list, present_names, table_index, in_present_section,
                   present_names_buffer, buffer_at, paragraphs_to_correct>>

WalkNext ==
    \/ LoadDocument
    \/ LoadDocumentRaises
    \/ ExtractImages
    \/ ScanOutline
    \/ ScanOutlineRaises
    \/ ProcessElement
    \/ CorrectParagraphs
    \/ SkipCorrection
    \/ WriteLatexFile
    \/ WriteLatexFileAgain

WalkIdle ==
    /\ pc = "idle" /\ doc = <<>> /\ doc_title = <<>> /\ para_text = <<>> /\ pos = 0
    /\ first_text = <<>> /\ elements = <<>> /\ sections_list = <<>>
    /\ subsections_list = <<>> /\ present_names = <<>> /\ table_index = 0
    /\ in_present_section = FALSE /\ present_names_buffer = <<>>
    /\ buffer_at = <<>> /\ paragraphs_to_correct = <<>> /\ rtrace = <<>>
    /\ markup = <<>>

----------------------------------------------------------------------------
(* remove_duplicate_columns applied to bounded rectangular tables *)

MaxRows == 2
MaxCols == 3
Cells == {"a", "b"}

RectTables ==
    UNION {[1..r -> [1..c -> Cells]] : r \in 0..MaxRows, c \in 0..MaxCols}

TableInit == tbl_pc = "in" /\ tbl_in \in RectTables /\ tbl_out = <<>>

\* table_data = remove_duplicate_columns(table_data)  (converter.py line 427)
DedupeTable ==
    /\ tbl_pc = "in"
    /\ tbl_out' = remove_duplicate_columns(tbl_in)
    /\ tbl_pc' = "once"
    /\ UNCHANGED tbl_in

\* the function applied to its own result
DedupeTableAgain ==
    /\ tbl_pc = "once"
    /\ tbl_out' = remove_duplicate_columns(tbl_out)
    /\ tbl_pc' = "twice"
    /\ UNCHANGED tbl_in

TableNext == DedupeTable \/ DedupeTableAgain

TableIdle == tbl_pc = "idle" /\ tbl_in = <<>> /\ tbl_out = <<>>

----------------------------------------------------------------------------
(* The classifier and escape_latex applied to bounded texts *)

MaxText == 3

\* every key of LATEX_SPECIAL_CHARS, a digit, a letter, ')' and a blank
TextChars ==
    {"&", "%", "$", "#", "_", "{", "}", "~", "^", "€", "<", ">", "°",
     "1", "a", ")", " "}

Texts == UNION {[1..n -> TextChars] : n \in 0..MaxText}

NoResult ==
    [section |-> FALSE, subsection |-> FALSE, title |-> <<>>, escaped |-> <<>>]

TextInit == txt_pc = "in" /\ txt_in \in Texts /\ txt_out = NoResult

\* the three classifier functions on txt_in
ClassifyText ==
    /\ txt_pc = "in"
    /\ txt_out' = [txt_out EXCEPT !.section = is_section_header(txt_in),
                                  !.subsection = is_subsection_header(txt_in),
                                  !.title = extract_section_title(txt_in)]
    /\ txt_pc' = "classified"
    /\ UNCHANGED txt_in

\* escape_latex on txt_in
EscapeText ==
    /\ txt_pc = "in"
    /\ txt_out' = [txt_out EXCEPT !.escaped = escape_latex(txt_in)]
    /\ txt_pc' = "escaped"
    /\ UNCHANGED txt_in

TextNext == ClassifyText \/ EscapeText

TextIdle == txt_pc = "idle" /\ txt_in = <<>> /\ txt_out = NoResult

----------------------------------------------------------------------------
(* The page header of one conversion.  The file name and the first         *)
(* paragraph are composed from fields, well formed or not.                 *)

Numeros == {<<"7">>, <<"1", "2">>, <<>>}
Annos == {<<"L", "I", "X">>, <<"X", "I", "V">>, <<"L", "I", "X", "a">>}
Annees == {<<"2", "0", "2", "5">>, <<"0", "0", "0", "0">>, <<"9", "9", "9", "9">>, <<"2", "0", "2">>}
Moiss == {<<"0", "1">>, <<"0", "6">>, <<"0", "7">>, <<"1", "2">>, <<"1">>}
Jours == {<<"2", "7">>}
Prefixes == {LIT_PV_RC, <<"P", "V", "_">>}
Suffixes == {<<>>, <<" ", "v", "2">>}

TitleParts ==
    [prefix : Prefixes, numero : Numeros, anno : Annos, annee : Annees,
     mois : Moiss, jour : Jours, suffix : Suffixes]

Compose(p) ==
    p.prefix \o p.numero \o LIT_ANNO \o p.anno \o LIT_DASH \o p.annee \o <<"-">>
    \o p.mois \o <<"-">> \o p.jour \o p.suffix

\* texts a document's first paragraph may hold
FirstParagraphs ==
    { <<"P", "V", " ", "R", "C", " ", "7", " ", "-", " ", "A", "n", "n", "o", " ", "L", "I", "X", " ", "-", " ", "2", "0", "2", "5", "-", "0", "1", "-", "2", "7">>,
      <<"P", "V", " ", "R", "C", " ", "3", " ", "-", " ", "A", "n", "n", "o", " ", "L", "I", "X", " ", "-", " ", "2", "0", "2", "4", "-", "1", "2", "-", "0", "2">>,
      <<"O", "r", "d", "r", "e">> }

WellFormed(p) ==
    /\ p.prefix = LIT_PV_RC
    /\ p.numero # <<>>
    /\ \A k \in 1..Len(p.anno) : p.anno[k] \in RomanLetters
    /\ Len(p.annee) = 4
    /\ Len(p.mois) = 2

TitleInit ==
    /\ ttl_pc = "convert"
    /\ ttl_parts \in TitleParts
    /\ ttl_stem = Compose(ttl_parts)
    /\ ttl_first \in FirstParagraphs
    /\ ttl_title = <<>>
    /\ ttl_first_text = <<>>
    /\ ttl_header = <<>>

\* convert lines 113-131: doc_title = Path(docx_path).stem is what
\* _process_document stores as data['title']; data['first_text'] is the first
\* paragraph's text
TitleProcessDocument ==
    /\ ttl_pc = "convert"
    /\ ttl_title' = ttl_stem
    /\ ttl_first_text' = Strip(ttl_first)
    /\ ttl_pc' = "write"
    /\ UNCHANGED <<ttl_parts, ttl_stem, ttl_first, ttl_header>>

\* _write_latex_file line 542
TitleWriteHeader ==
    /\ ttl_pc = "write"
    /\ ttl_header' = generate_title_header(ttl_title)
    /\ ttl_pc' = "done"
    /\ UNCHANGED <<ttl_parts, ttl_stem, ttl_first, ttl_title, ttl_first_text>>

TitleNext == TitleProcessDocument \/ TitleWriteHeader

TitleIdle ==
    /\ ttl_pc = "idle" /\ ttl_parts = <<>> /\ ttl_stem = <<>> /\ ttl_first = <<>>
    /\ ttl_title = <<>> /\ ttl_first_text = <<>> /\ ttl_header = <<>>

----------------------------------------------------------------------------
(* correct_paragraphs_batch on bounded lists of paragraphs *)

MaxParas == 3
BatchSizes == {1, 2}

\* run texts of the paragraphs handed to the corrector
CorParagraphs ==
    { << <<" ", "a", " ">> >>,
      << <<"a">>, <<"b", "c">> >>,
      << <<"a", " ">>, <<"b", " ">> >>,
      << <<"a", "b">> >>,
      << <<" ">> >> }

CorInit ==
    /\ cor_pc = "call"
    /\ cor_client \in BOOLEAN
    /\ cor_batch_size \in BatchSizes
    /\ cor_orig \in UNION {[1..n -> CorParagraphs] : n \in 0..MaxParas}
    /\ cor_paras = cor_orig
    /\ cor_valid = <<>>
    /\ cor_idx = 0
    /\ cor_log = <<>>

\* lines 43-45: no client, the paragraphs are returned as they are
CorNoClient ==
    /\ cor_pc = "call"
    /\ ~cor_client
    /\ cor_pc' = "returned"
    /\ UNCHANGED <<cor_client, cor_batch_size, cor_orig, cor_paras, cor_valid,
                   cor_idx, cor_log>>

\* lines 47-57: the valid paragraphs are listed
CorListValid ==
    /\ cor_pc = "call"
    /\ cor_client
    /\ cor_valid' = ValidParagraphs(cor_paras, 1)
    /\ cor_pc' = IF cor_valid' = <<>> THEN "returned" ELSE "batches"
    /\ UNCHANGED <<cor_client, cor_batch_size, cor_orig, cor_paras, cor_idx,
                   cor_log>>

\* lines 59-67: one iteration of the loop over the batches
CorBatch ==
    /\ cor_pc = "batches"
    /\ cor_idx < Len(cor_valid)
    /\ \E outcome \in ChatOutcomes :
          LET last == IF cor_idx + cor_batch_size < Len(cor_valid)
                      THEN cor_idx + cor_batch_size ELSE Len(cor_valid)
              batch == SubSeq(cor_valid, cor_idx + 1, last)
          IN /\ cor_paras' = correct_batch(cor_paras, batch, outcome)
             /\ cor_log' = Append(cor_log, [batch |-> batch, outcome |-> outcome])
    /\ cor_idx' = cor_idx + cor_batch_size
    /\ UNCHANGED <<cor_pc, cor_client, cor_batch_size, cor_orig, cor_valid>>

\* lines 69-70: the loop is over
CorReturn ==
    /\ cor_pc = "batches"
    /\ cor_idx >= Len(cor_valid)
    /\ cor_pc' = "returned"
    /\ UNCHANGED <<cor_client, cor_batch_size, cor_orig, cor_paras, cor_valid,
                   cor_idx, cor_log>>

CorNext == CorNoClient \/ CorListValid \/ CorBatch \/ CorReturn

CorIdle ==
    /\ cor_pc = "idle" /\ cor_client = FALSE /\ cor_batch_size = 0
    /\ cor_orig = <<>> /\ cor_paras = <<>> /\ cor_valid = <<>> /\ cor_idx = 0
    /\ cor_log = <<>>

----------------------------------------------------------------------------
(* Batch caller (gui.py): the file list, start_conversion and the worker   *)
(* thread running process_files, interleaved with the window's handlers    *)

DOCX == <<".", "d", "o", "c", "x">>

\* str.endswith
EndsWith(t, s) == Len(t) >= Len(s) /\ SubSeq(t, Len(t) - Len(s) + 1, Len(t)) = s

\* paths the user may drop or browse
GuiPaths ==
    { <<"a">> \o DOCX, <<"b">> \o DOCX, <<"c">> \o DOCX, <<"d", ".", "t", "x", "t">> }

\* an exception that leaves the loop instead of being caught inside it
LoopContinues_abort(outcome) == outcome # "raises"

\* lines 375-393: the try/except is inside the loop body, so the loop goes
\* on to the next file whatever convert did
LoopContinues(outcome) == outcome \in {"returns", "raises"}

GuiInit ==
    /\ gui_pc = "idle_worker"
    /\ files_to_process = <<>>
    /\ processing = FALSE
    /\ clear_btn = TRUE
    /\ total_files = 0
    /\ gui_i = 0
    /\ success_count = 0
    /\ error_count = 0
    /\ gui_calls = <<>>

\* add_files for one path (drop zone and browse stay active while processing)
AddFiles ==
    /\ \E file_path \in GuiPaths :
          files_to_process' =
              IF EndsWith(file_path, DOCX)
                 /\ \A k \in 1..Len(files_to_process) : files_to_process[k] # file_path
              THEN Append(files_to_process, file_path)
              ELSE files_to_process
    /\ UNCHANGED <<gui_pc, processing, clear_btn, total_files, gui_i, success_count,
                   error_count, gui_calls>>

\* clear_selection, behind the clear button
ClearSelection ==
    /\ clear_btn
    /\ files_to_process' = <<>>
    /\ UNCHANGED <<gui_pc, processing, clear_btn, total_files, gui_i, success_count,
                   error_count, gui_calls>>

\* start_conversion (lines 339-351)
StartConversion ==
    /\ files_to_process # <<>> /\ ~processing
    /\ gui_pc \in {"idle_worker", "finished"}
    /\ processing' = TRUE
    /\ clear_btn' = FALSE
    /\ gui_pc' = "started"
    /\ UNCHANGED <<files_to_process, total_files, gui_i, success_count, error_count,
                   gui_calls>>

\* process_files lines 355-366
ProcessFilesBegin ==
    /\ gui_pc = "started"
    /\ total_files' = Len(files_to_process)
    /\ success_count' = 0
    /\ error_count' = 0
    /\ gui_i' = 0
    /\ gui_calls' = <<>>
    /\ gui_pc' = "loop"
    /\ UNCHANGED <<files_to_process, processing, clear_btn>>

\* lines 368-397: one iteration; convert returns or raises
ProcessFile ==
    /\ gui_pc = "loop"
    /\ gui_i < Len(files_to_process)
    /\ \E outcome \in {"returns", "raises"} :
          /\ gui_calls' = Append(gui_calls, [file_path |-> files_to_process[gui_i + 1],
                                             outcome |-> outcome])
          /\ success_count' = IF outcome = "returns" THEN success_count + 1
                              ELSE success_count
          /\ error_count' = IF outcome = "raises" THEN error_count + 1
                            ELSE error_count
          /\ gui_pc' = IF LoopContinues(outcome) THEN "loop" ELSE "summary"
    /\ gui_i' = gui_i + 1
    /\ UNCHANGED <<files_to_process, processing, clear_btn, total_files>>

\* line 368: the list is exhausted
ProcessFilesLoopEnd ==
    /\ gui_pc = "loop"
    /\ gui_i >= Len(files_to_process)
    /\ gui_pc' = "summary"
    /\ UNCHANGED <<files_to_process, processing, clear_btn, total_files, gui_i,
                   success_count, error_count, gui_calls>>

\* lines 399-410
ProcessFilesEnd ==
    /\ gui_pc = "summary"
    /\ processing' = FALSE
    /\ clear_btn' = TRUE
    /\ gui_pc' = "finished"
    /\ UNCHANGED <<files_to_process, total_files, gui_i, success_count, error_count,
                   gui_calls>>

GuiNext ==
    \/ AddFiles
    \/ ClearSelection
    \/ StartConversion
    \/ ProcessFilesBegin
    \/ ProcessFile
    \/ ProcessFilesLoopEnd
    \/ ProcessFilesEnd

GuiIdle ==
    /\ gui_pc = "no_window" /\ files_to_process = <<>> /\ processing = FALSE
    /\ clear_btn = FALSE /\ total_files = 0 /\ gui_i = 0 /\ success_count = 0
    /\ error_count = 0 /\ gui_calls = <<>>

----------------------------------------------------------------------------
(* Compilation (converter.py: the tail of convert, _compile_to_pdf,         *)
(* _clean_auxiliary_files) and the package list of the configuration.       *)
(* A line of LATEX_PACKAGES is <<command, options, argument>>.              *)

UsePackage(options, name) == <<"usepackage", options, name>>

\* config.py lines 21-34
DEFAULT_LATEX_PACKAGES ==
    << UsePackage("T1", "fontenc"), UsePackage("utf8", "inputenc"),
       UsePackage("margin=1.2in", "geometry"), <<"geometry", "", "a4paper">>,
       UsePackage("", "fancyhdr"), UsePackage("", "multicol"),
       UsePackage("", "graphicx"), UsePackage("", "float"),
       UsePackage("", "varwidth"), UsePackage("", "textcomp"),
       UsePackage("", "csquotes"), UsePackage("gen", "eurosym") >>

\* generate_document_header: the package lines a header is written with
generate_document_header(packages) == packages

\* the names a compiler run may report as  File `<name>.sty' not found,
\* each as its path components
MissingNames == { <<"tikz">>, <<"tex", "float">>, <<"fontenc">> }

\* pkg.split('/')[-1]
PkgName(pkg) == pkg[Len(pkg)]

InList(line, list) == \E k \in 1..Len(list) : list[k] = line

\* lines 234-241 for the names of order, one after the other: the lines
\* appended to the package list
RECURSIVE AddedLines(_, _)
AddedLines(order, packages) ==
    IF order = <<>> THEN <<>>
    ELSE LET usepkg == UsePackage("", PkgName(Head(order))) IN
         IF InList(usepkg, packages) THEN AddedLines(Tail(order), packages)
         ELSE <<usepkg>> \o AddedLines(Tail(order), Append(packages, usepkg))

\* the orders in which a set may be iterated
Orders(S) ==
    {o \in [1..Cardinality(S) -> S] :
        \A i \in 1..Cardinality(S) : \A j \in 1..Cardinality(S) :
            i # j => o[i] # o[j]}

\* a failed second retry that starts the retries over
AfterRetries_loop(returncode) == IF returncode # 0 THEN "retry1" ELSE "crossref"

\* lines 263-264: if retry2.returncode != 0: return None
AfterRetries(returncode) == IF returncode # 0 THEN "return_none" ELSE "crossref"

\* a convert that hands back whatever the compilation gave
ConvertResult_pdf_only(pdf_result) == pdf_result

\* lines 172-177: return pdf_result if there is one, else the path of the
\* markup file
ConvertResult(pdf_result) == IF pdf_result # "none" THEN pdf_result ELSE "tex"

MaxConversions == 2

CompilePcs == {"pdflatex", "lualatex", "analyze", "retry1", "retry2", "crossref", "clean"}

CmpInit ==
    /\ cmp_pc = "ready"
    /\ latex_packages = DEFAULT_LATEX_PACKAGES
    /\ cmp_installed \in [{"pdflatex", "lualatex"} -> BOOLEAN]
    /\ cmp_compile_pdf = FALSE
    /\ cmp_headers = <<>>
    /\ cmp_invocations = <<>>
    /\ cmp_missing = {}
    /\ cmp_extended = 0
    /\ cmp_aux = FALSE
    /\ cmp_pdf = FALSE
    /\ cmp_pdf_path = "not_called"
    /\ cmp_result = "none"

\* convert lines 109-137 fail (the document cannot be loaded or processed):
\* the exception is logged and raised again
ConvertRaises ==
    /\ cmp_pc \in {"ready", "returned", "raised"}
    /\ Len(cmp_headers) < MaxConversions
    /\ cmp_pc' = "raised"
    /\ cmp_headers' = Append(cmp_headers, <<>>)
    /\ cmp_result' = "none"
    /\ cmp_pdf_path' = "not_called"
    /\ cmp_invocations' = <<>>
    /\ cmp_missing' = {}
    /\ cmp_extended' = 0
    /\ UNCHANGED <<latex_packages, cmp_installed, cmp_compile_pdf, cmp_aux, cmp_pdf>>

\* convert lines 109-143: the markup file is written with the header of the
\* current configuration; the compilation starts if it is requested
ConvertWrite ==
    /\ cmp_pc \in {"ready", "returned", "raised"}
    /\ Len(cmp_headers) < MaxConversions
    /\ cmp_headers' = Append(cmp_headers, generate_document_header(latex_packages))
    /\ \E compile_pdf \in BOOLEAN :
          /\ cmp_compile_pdf' = compile_pdf
          /\ cmp_pc' = IF compile_pdf THEN "pdflatex" ELSE "compiled"
    /\ cmp_result' = "none"
    /\ cmp_pdf_path' = "not_called"
    /\ cmp_invocations' = <<>>
    /\ cmp_missing' = {}
    /\ cmp_extended' = 0
    /\ cmp_aux' = FALSE
    /\ cmp_pdf' = FALSE
    /\ UNCHANGED <<latex_packages, cmp_installed>>

\* subprocess.run of an installed engine: it leaves auxiliary files, exits
\* with 0 (the pdf is written) or not (the pdf may be written, packages may be
\* reported missing)
RunEngine(engine, returncode, notfound) ==
    /\ cmp_installed[engine]
    /\ returncode = 0 => notfound = {}
    /\ cmp_invocations' = Append(cmp_invocations, engine)
    /\ cmp_aux' = TRUE
    /\ cmp_pdf' \in (IF returncode = 0 THEN {TRUE} ELSE {cmp_pdf, TRUE})

\* lines 211-218
RunPdflatex ==
    /\ cmp_pc = "pdflatex"
    /\ \E returncode \in {0, 1} : \E notfound \in SUBSET MissingNames :
          /\ RunEngine("pdflatex", returncode, notfound)
          /\ cmp_missing' = notfound
          /\ cmp_pc' = IF returncode # 0 THEN "lualatex" ELSE "crossref"
    /\ UNCHANGED <<latex_packages, cmp_installed, cmp_compile_pdf, cmp_headers,
                   cmp_extended, cmp_pdf_path, cmp_result>>

\* lines 221-229
RunLualatex ==
    /\ cmp_pc = "lualatex"
    /\ \E returncode \in {0, 1} : \E notfound \in SUBSET MissingNames :
          /\ RunEngine("lualatex", returncode, notfound)
          /\ cmp_missing' = cmp_missing \cup notfound
          /\ cmp_pc' = IF returncode # 0 THEN "analyze" ELSE "crossref"
    /\ UNCHANGED <<latex_packages, cmp_installed, cmp_compile_pdf, cmp_headers,
                   cmp_extended, cmp_pdf_path, cmp_result>>

\* lines 232-266: both engines failed
AnalyzeMissing ==
    /\ cmp_pc = "analyze"
    /\ \E order \in Orders(cmp_missing) :
          LET added == AddedLines(order, latex_packages) IN
          /\ latex_packages' = latex_packages \o added
          /\ cmp_extended' = IF added # <<>> THEN cmp_extended + 1 ELSE cmp_extended
          /\ IF cmp_missing = {} THEN cmp_pc' = "crossref" /\ UNCHANGED cmp_pdf_path
             ELSE IF added # <<>> THEN cmp_pc' = "retry1" /\ UNCHANGED cmp_pdf_path
             ELSE cmp_pc' = "compiled" /\ cmp_pdf_path' = "none"
    /\ UNCHANGED <<cmp_installed, cmp_compile_pdf, cmp_headers, cmp_invocations,
                   cmp_missing, cmp_aux, cmp_pdf, cmp_result>>

\* lines 247-252
Retry1 ==
    /\ cmp_pc = "retry1"
    /\ \E returncode \in {0, 1} : \E notfound \in SUBSET MissingNames :
          RunEngine("pdflatex", returncode, notfound)
    /\ cmp_pc' = "retry2"
    /\ UNCHANGED <<latex_packages, cmp_installed, cmp_compile_pdf, cmp_headers,
                   cmp_missing, cmp_extended, cmp_pdf_path, cmp_result>>

\* lines 254-264
Retry2 ==
    /\ cmp_pc = "retry2"
    /\ \E returncode \in {0, 1} : \E notfound \in SUBSET MissingNames :
          /\ RunEngine("pdflatex", returncode, notfound)
          /\ IF AfterRetries(returncode) = "return_none"
             THEN cmp_pc' = "compiled" /\ cmp_pdf_path' = "none"
             ELSE cmp_pc' = AfterRetries(returncode) /\ UNCHANGED cmp_pdf_path
    /\ UNCHANGED <<latex_packages, cmp_installed, cmp_compile_pdf, cmp_headers,
                   cmp_missing, cmp_extended, cmp_result>>

\* lines 269-274
CrossRefPass ==
    /\ cmp_pc = "crossref"
    /\ \E returncode \in {0, 1} : \E notfound \in SUBSET MissingNames :
          RunEngine("pdflatex", returncode, notfound)
    /\ cmp_pc' = "clean"
    /\ UNCHANGED <<latex_packages, cmp_installed, cmp_compile_pdf, cmp_headers,
                   cmp_missing, cmp_extended, cmp_pdf_path, cmp_result>>

\* lines 285-291: subprocess.run raises FileNotFoundError
EngineNotInstalled ==
    /\ cmp_pc \in {"pdflatex", "lualatex", "retry1", "retry2", "crossref"}
    /\ ~cmp_installed[IF cmp_pc = "lualatex" THEN "lualatex" ELSE "pdflatex"]
    /\ cmp_pc' = "compiled"
    /\ cmp_pdf_path' = "none"
    /\ UNCHANGED <<latex_packages, cmp_installed, cmp_compile_pdf, cmp_headers,
                   cmp_invocations, cmp_missing, cmp_extended, cmp_aux, cmp_pdf,
                   cmp_result>>

\* lines 276-282: _clean_auxiliary_files, then the result
CleanAndReturn ==
    /\ cmp_pc = "clean"
    /\ cmp_aux' = FALSE
    /\ cmp_pdf_path' = IF cmp_pdf THEN "pdf_in_latex_dir" ELSE "none"
    /\ cmp_pc' = "compiled"
    /\ UNCHANGED <<latex_packages, cmp_installed, cmp_compile_pdf, cmp_headers,
                   cmp_invocations, cmp_missing, cmp_extended, cmp_pdf, cmp_result>>

\* convert lines 141-177: the artifact is moved (or copied, or left where it
\* is) and its path returned; without artifact the markup file's path is
ConvertReturn ==
    /\ cmp_pc = "compiled"
    /\ \E moved \in BOOLEAN :
          LET pdf_result ==
                  IF cmp_pdf_path = "pdf_in_latex_dir"
                  THEN (IF moved THEN "pdf_in_pdf_dir" ELSE "pdf_in_latex_dir")
                  ELSE "none"
          IN cmp_result' = ConvertResult(pdf_result)
    /\ cmp_pc' = "returned"
    /\ UNCHANGED <<latex_packages, cmp_installed, cmp_compile_pdf, cmp_headers,
                   cmp_invocations, cmp_missing, cmp_extended, cmp_aux, cmp_pdf,
                   cmp_pdf_path>>

CmpNext ==
    \/ ConvertRaises
    \/ ConvertWrite
    \/ RunPdflatex
    \/ RunLualatex
    \/ AnalyzeMissing
    \/ Retry1
    \/ Retry2
    \/ CrossRefPass
    \/ EngineNotInstalled
    \/ CleanAndReturn
    \/ ConvertReturn

CmpIdle ==
    /\ cmp_pc = "idle" /\ latex_packages = <<>> /\ cmp_installed = <<>>
    /\ cmp_compile_pdf = FALSE /\ cmp_headers = <<>> /\ cmp_invocations = <<>>
    /\ cmp_missing = {} /\ cmp_extended = 0 /\ cmp_aux = FALSE /\ cmp_pdf = FALSE
    /\ cmp_pdf_path = "not_called" /\ cmp_result = "none"

----------------------------------------------------------------------------
(* Embedded images (converter.py lines 436-459, 340-345, 561-580).  The    *)
(* XML of a paragraph is the sequence of its drawings; a drawing has the    *)
(* r:embed id of its picture and the cx="..." and cy="..." attributes that   *)
(* occur inside it, in order (its extent first).  Lengths in cm are kept in *)
(* hundredths, as "{:.2f}" prints them.                                     *)

EMU_PER_INCH == 914400
CM_PER_INCH_X100 == 254

\* _emu_to_cm, in hundredths of a cm (rounded to the nearest)
emu_to_cm(emu) ==
    (emu * CM_PER_INCH_X100 + (EMU_PER_INCH \div 2)) \div EMU_PER_INCH

\* re.findall over the whole XML: the attributes of all drawings, flattened
RECURSIVE FindAll(_, _)
FindAll(xml, attr) ==
    IF xml = <<>> THEN <<>> ELSE Head(xml)[attr] \o FindAll(Tail(xml), attr)

\* lines 443-457 for the rids from position idx + 1 on; None is <<>>, a value v is <<v>>
RECURSIVE ImageEntries(_, _, _, _)
ImageEntries(xml, idx, cx_list, cy_list) ==
    IF idx >= Len(xml) THEN <<>>
    ELSE LET rid == xml[idx + 1].rid
             cx == IF idx < Len(cx_list) THEN <<cx_list[idx + 1]>> ELSE <<>>
             cy == IF idx < Len(cy_list) THEN <<cy_list[idx + 1]>> ELSE <<>>
             sized == cx # <<>> /\ cy # <<>> /\ cx[1] # 0 /\ cy[1] # 0
         IN (IF rid.in_image_map
             THEN <<[type |-> "image", idx |-> idx + 1,
                     width_cm |-> IF sized THEN <<emu_to_cm(cx[1])>> ELSE <<>>,
                     height_cm |-> IF sized THEN <<emu_to_cm(cy[1])>> ELSE <<>>]>>
             ELSE <<>>)
            \o ImageEntries(xml, idx + 1, cx_list, cy_list)

\* lines 568-572: the sizing options of one image element
ImageOptions(element) ==
    (IF element.width_cm # <<>> /\ element.width_cm[1] > 0
     THEN <<[option |-> "width", cm_x100 |-> element.width_cm[1]]>> ELSE <<>>)
    \o (IF element.height_cm # <<>> /\ element.height_cm[1] > 0
        THEN <<[option |-> "height", cm_x100 |-> element.height_cm[1]]>> ELSE <<>>)

MaxImages == 2

\* the cx and cy attributes of one drawing: none, its extent, or its extent
\* and the same size again on the picture's shape
Extents == {0, EMU_PER_INCH, EMU_PER_INCH \div 2}
DrawingAttributes ==
    {[cx |-> <<>>, cy |-> <<>>]}
    \cup {[cx |-> <<x>>, cy |-> <<y>>] : x \in Extents, y \in Extents}
    \cup {[cx |-> <<x, x>>, cy |-> <<y, y>>] : x \in {EMU_PER_INCH}, y \in {EMU_PER_INCH \div 2}}

Drawings ==
    {[rid |-> [in_image_map |-> m], cx |-> a.cx, cy |-> a.cy] :
        m \in BOOLEAN, a \in DrawingAttributes}

ImgInit ==
    /\ img_pc = "paragraph"
    /\ img_xml \in UNION {[1..n -> Drawings] : n \in 0..MaxImages}
    /\ img_elements = <<>>
    /\ img_options = <<>>

\* _process_element lines 436-459 on the paragraph
ProcessImages ==
    /\ img_pc = "paragraph"
    /\ img_elements' = ImageEntries(img_xml, 0, FindAll(img_xml, "cx"),
                                    FindAll(img_xml, "cy"))
    /\ img_pc' = "processed"
    /\ UNCHANGED <<img_xml, img_options>>

\* _write_latex_file lines 561-580 on the image elements
RenderImages ==
    /\ img_pc = "processed"
    /\ img_options' = [k \in 1..Len(img_elements) |-> ImageOptions(img_elements[k])]
    /\ img_pc' = "rendered"
    /\ UNCHANGED <<img_xml, img_elements>>

ImgNext == ProcessImages \/ RenderImages

ImgIdle ==
    /\ img_pc = "idle" /\ img_xml = <<>> /\ img_elements = <<>> /\ img_options = <<>>

----------------------------------------------------------------------------
(* extract_sections_list and generate_toc on bounded outlines: documents    *)
(* made of section and subsection headers only.                              *)

MaxOutline == 4

\* section headers titled "S", "SX" (which "S" begins) and "" (empty), and two
\* subsection headers
OutlineNodes ==
    { Para(<<"1", ")", "S">>, <<>>),
      Para(<<"2", ")", "S", "X">>, <<>>),
      Para(<<"3", ")">>, <<>>),
      Para(<<"a", ")", "u">>, <<>>),
      Para(<<"b", ")", "v">>, <<>>) }

Outlines == UNION {[1..n -> OutlineNodes] : n \in 0..MaxOutline}

TocInit ==
    /\ toc_pc = "scan"
    /\ toc_doc \in Outlines
    /\ toc_sections = <<>>
    /\ toc_subsections = <<>>
    /\ toc_lines = <<>>

\* data['sections_list'], data['subsections_list'] = extract_sections_list(...)
TocScan ==
    /\ toc_pc = "scan"
    /\ \E r \in {extract_sections_list(toc_doc)} :
          /\ ~r.raised
          /\ toc_sections' = r.sections
          /\ toc_subsections' = r.subsections
    /\ toc_pc' = "scanned"
    /\ UNCHANGED <<toc_doc, toc_lines>>

\* the scan raises
TocScanRaises ==
    /\ toc_pc = "scan"
    /\ extract_sections_list(toc_doc).raised
    /\ toc_pc' = "failed"
    /\ UNCHANGED <<toc_doc, toc_sections, toc_subsections, toc_lines>>

\* generate_toc(data['sections_list'], data['subsections_list']); the call
\* pops from the list it is given
TocGenerate ==
    /\ toc_pc = "scanned"
    /\ \E r \in {generate_toc(toc_sections, toc_subsections)} :
          /\ toc_lines' = r.lines
          /\ toc_subsections' = r.subsections
    /\ toc_pc' = "generated"
    /\ UNCHANGED <<toc_doc, toc_sections>>

TocNext == TocScan \/ TocScanRaises \/ TocGenerate

TocIdle ==
    /\ toc_pc = "idle" /\ toc_doc = <<>> /\ toc_sections = <<>>
    /\ toc_subsections = <<>> /\ toc_lines = <<>>

----------------------------------------------------------------------------
(* _update_paragraph_text on one paragraph whose runs carry formatting *)

\* a run of n letters
Letters(n, c) == [k \in 1..n |-> c]

\* the run texts of the paragraph: none, one, several, all empty, and a
\* paragraph of 22 characters in runs of 15 and 7
RunTexts ==
    { <<>>,
      << <<"a">> >>,
      << <<"a">>, <<"b", "c">> >>,
      << <<>>, <<>> >>,
      << <<"a", "b">>, <<>>, <<"c">> >>,
      << <<"a", "b", "c">>, <<"d">>, <<"e", "f">> >>,
      << Letters(15, "a"), Letters(7, "b") >> }

\* the corrected text handed over
NewTexts ==
    { <<>>, <<"x">>, <<"x", "y">>, <<"x", "y", " ", "z", "w">>,
      Letters(22, "x"), Letters(23, "x") }

RunInit ==
    /\ run_pc = "before"
    /\ \E texts \in RunTexts : \E first_bold \in BOOLEAN :
          run_runs = [k \in 1..Len(texts) |->
                         [text |-> texts[k], bold |-> (k = 1) = first_bold,
                          italic |-> k = 2]]
    /\ run_new \in NewTexts
    /\ run_after = <<>>

\* _update_paragraph_text(paragraph, new_text): only run.text is assigned;
\* with no run, add_run makes one plain run
UpdateParagraphText ==
    /\ run_pc = "before"
    /\ \E texts \in {update_paragraph_text([k \in 1..Len(run_runs) |-> run_runs[k].text],
                                           run_new)} :
          run_after' =
              IF run_runs = <<>>
              THEN <<[text |-> texts[1], bold |-> FALSE, italic |-> FALSE]>>
              ELSE [k \in 1..Len(run_runs) |-> [run_runs[k] EXCEPT !.text = texts[k]]]
    /\ run_pc' = "updated"
    /\ UNCHANGED <<run_runs, run_new>>

RunNext == UpdateParagraphText

RunIdle ==
    /\ run_pc = "idle" /\ run_runs = <<>> /\ run_new = <<>> /\ run_after = <<>>

----------------------------------------------------------------------------
(* _call_correction_api and the configuration's whitelist                   *)
(* (text_corrector.py lines 111-146)                                        *)

Whitelists == {<<>>, <<"CBB">>, <<"CBB", "XX">>, <<"F.">>}

\* an exception that skips the restoring assignment
RestoresOn_return_only(exit) == exit = "return"

\* lines 144-146: the finally clause runs after the return of the try block
\* and after the except handler
RestoresOn(exit) == exit \in {"return", "except"}

WlInit ==
    /\ wl_pc = "call"
    /\ wl_client \in BOOLEAN
    /\ wl_config \in Whitelists
    /\ wl_before = wl_config
    /\ wl_arg \in Whitelists
    /\ wl_original = <<>>
    /\ wl_prompt = <<>>
    /\ wl_exit = "none"
    /\ wl_result = "none"

\* lines 122-123: no client
WlNoClient ==
    /\ wl_pc = "call" /\ ~wl_client
    /\ wl_result' = "None"
    /\ wl_pc' = "returned"
    /\ UNCHANGED <<wl_client, wl_config, wl_before, wl_arg, wl_original, wl_prompt,
                   wl_exit>>

\* lines 126-127
WlSet ==
    /\ wl_pc = "call" /\ wl_client
    /\ wl_original' = wl_config
    /\ wl_config' = wl_arg
    /\ wl_pc' = "try"
    /\ UNCHANGED <<wl_client, wl_before, wl_arg, wl_prompt, wl_exit, wl_result>>

\* line 130: get_correction_prompt reads the whitelist of the configuration;
\* template.format may raise on an edited template
WlPrompt ==
    /\ wl_pc = "try"
    /\ \E raises \in BOOLEAN :
          IF raises
          THEN /\ wl_pc' = "except" /\ UNCHANGED wl_prompt
          ELSE /\ wl_pc' = "chat"
               /\ wl_prompt' = <<IF wl_config = <<>> THEN <<"aucun">> ELSE wl_config>>
    /\ UNCHANGED <<wl_client, wl_config, wl_before, wl_arg, wl_original, wl_exit,
                   wl_result>>

\* lines 132-138: the service answers or raises
WlChat ==
    /\ wl_pc = "chat"
    /\ \E raises \in BOOLEAN :
          IF raises
          THEN /\ wl_pc' = "except" /\ UNCHANGED <<wl_exit, wl_result>>
          ELSE /\ wl_pc' = "finally" /\ wl_exit' = "return"
               /\ wl_result' = "response"
    /\ UNCHANGED <<wl_client, wl_config, wl_before, wl_arg, wl_original, wl_prompt>>

\* lines 140-143
WlExcept ==
    /\ wl_pc = "except"
    /\ wl_exit' = "except"
    /\ wl_result' = "text"
    /\ wl_pc' = "finally"
    /\ UNCHANGED <<wl_client, wl_config, wl_before, wl_arg, wl_original, wl_prompt>>

\* lines 144-146, then the function returns
WlFinally ==
    /\ wl_pc = "finally"
    /\ wl_config' = IF RestoresOn(wl_exit) THEN wl_original ELSE wl_config
    /\ wl_pc' = "returned"
    /\ UNCHANGED <<wl_client, wl_before, wl_arg, wl_original, wl_prompt, wl_exit,
                   wl_result>>

WlNext == WlNoClient \/ WlSet \/ WlPrompt \/ WlChat \/ WlExcept \/ WlFinally

WlIdle ==
    /\ wl_pc = "idle" /\ wl_client = FALSE /\ wl_config = <<>> /\ wl_before = <<>>
    /\ wl_arg = <<>> /\ wl_original = <<>> /\ wl_prompt = <<>>
    /\ wl_exit = "none" /\ wl_result = "none"

----------------------------------------------------------------------------
(* Specifications *)

Init ==
    /\ WalkInit
    /\ TableIdle
    /\ TextIdle
    /\ TitleIdle
    /\ CorIdle
    /\ GuiIdle
    /\ CmpIdle
    /\ ImgIdle
    /\ TocIdle
    /\ RunIdle
    /\ WlIdle
Next ==
    /\ WalkNext
    /\ UNCHANGED <<tableVars, textVars, titleVars, corVars, guiVars, cmpVars,
                 imgVars, tocVars, runVars, wlVars>>
Spec == Init /\ [][Next]_vars

InitTable ==
    /\ TableInit
    /\ WalkIdle
    /\ TextIdle
    /\ TitleIdle
    /\ CorIdle
    /\ GuiIdle
    /\ CmpIdle
    /\ ImgIdle
    /\ TocIdle
    /\ RunIdle
    /\ WlIdle
NextTable ==
    /\ TableNext
    /\ UNCHANGED <<walkVars, textVars, titleVars, corVars, guiVars, cmpVars,
                 imgVars, tocVars, runVars, wlVars>>
SpecTable == InitTable /\ [][NextTable]_vars

InitText ==
    /\ TextInit
    /\ WalkIdle
    /\ TableIdle
    /\ TitleIdle
    /\ CorIdle
    /\ GuiIdle
    /\ CmpIdle
    /\ ImgIdle
    /\ TocIdle
    /\ RunIdle
    /\ WlIdle
NextText ==
    /\ TextNext
    /\ UNCHANGED <<walkVars, tableVars, titleVars, corVars, guiVars, cmpVars,
                 imgVars, tocVars, runVars, wlVars>>
SpecText == InitText /\ [][NextText]_vars

InitTitle ==
    /\ TitleInit
    /\ WalkIdle
    /\ TableIdle
    /\ TextIdle
    /\ CorIdle
    /\ GuiIdle
    /\ CmpIdle
    /\ ImgIdle
    /\ TocIdle
    /\ RunIdle
    /\ WlIdle
NextTitle ==
    /\ TitleNext
    /\ UNCHANGED <<walkVars, tableVars, textVars, corVars, guiVars, cmpVars,
                 imgVars, tocVars, runVars, wlVars>>
SpecTitle == InitTitle /\ [][NextTitle]_vars

InitCorrect ==
    /\ CorInit
    /\ WalkIdle
    /\ TableIdle
    /\ TextIdle
    /\ TitleIdle
    /\ GuiIdle
    /\ CmpIdle
    /\ ImgIdle
    /\ TocIdle
    /\ RunIdle
    /\ WlIdle
NextCorrect ==
    /\ CorNext
    /\ UNCHANGED <<walkVars, tableVars, textVars, titleVars, guiVars,
                 cmpVars, imgVars, tocVars, runVars, wlVars>>
SpecCorrect == InitCorrect /\ [][NextCorrect]_vars

InitBatch ==
    /\ GuiInit
    /\ WalkIdle
    /\ TableIdle
    /\ TextIdle
    /\ TitleIdle
    /\ CorIdle
    /\ CmpIdle
    /\ ImgIdle
    /\ TocIdle
    /\ RunIdle
    /\ WlIdle
NextBatch ==
    /\ GuiNext
    /\ UNCHANGED <<walkVars, tableVars, textVars, titleVars, corVars,
                 cmpVars, imgVars, tocVars, runVars, wlVars>>
SpecBatch == InitBatch /\ [][NextBatch]_vars

InitCompile ==
    /\ CmpInit
    /\ WalkIdle
    /\ TableIdle
    /\ TextIdle
    /\ TitleIdle
    /\ CorIdle
    /\ GuiIdle
    /\ ImgIdle
    /\ TocIdle
    /\ RunIdle
    /\ WlIdle
NextCompile ==
    /\ CmpNext
    /\ UNCHANGED <<walkVars, tableVars, textVars, titleVars, corVars,
                 guiVars, imgVars, tocVars, runVars, wlVars>>
SpecCompile == InitCompile /\ [][NextCompile]_vars

InitImage ==
    /\ ImgInit
    /\ WalkIdle
    /\ TableIdle
    /\ TextIdle
    /\ TitleIdle
    /\ CorIdle
    /\ GuiIdle
    /\ CmpIdle
    /\ TocIdle
    /\ RunIdle
    /\ WlIdle
NextImage ==
    /\ ImgNext
    /\ UNCHANGED <<walkVars, tableVars, textVars, titleVars, corVars,
                 guiVars, cmpVars, tocVars, runVars, wlVars>>
SpecImage == InitImage /\ [][NextImage]_vars

InitToc ==
    /\ TocInit
    /\ WalkIdle
    /\ TableIdle
    /\ TextIdle
    /\ TitleIdle
    /\ CorIdle
    /\ GuiIdle
    /\ CmpIdle
    /\ ImgIdle
    /\ RunIdle
    /\ WlIdle
NextToc ==
    /\ TocNext
    /\ UNCHANGED <<walkVars, tableVars, textVars, titleVars, corVars,
                 guiVars, cmpVars, imgVars, runVars, wlVars>>
SpecToc == InitToc /\ [][NextToc]_vars

InitRuns ==
    /\ RunInit
    /\ WalkIdle
    /\ TableIdle
    /\ TextIdle
    /\ TitleIdle
    /\ CorIdle
    /\ GuiIdle
    /\ CmpIdle
    /\ ImgIdle
    /\ TocIdle
    /\ WlIdle
NextRuns ==
    /\ RunNext
    /\ UNCHANGED <<walkVars, tableVars, textVars, titleVars, corVars,
                 guiVars, cmpVars, imgVars, tocVars, wlVars>>
SpecRuns == InitRuns /\ [][NextRuns]_vars

InitWhitelist ==
    /\ WlInit
    /\ WalkIdle
    /\ TableIdle
    /\ TextIdle
    /\ TitleIdle
    /\ CorIdle
    /\ GuiIdle
    /\ CmpIdle
    /\ ImgIdle
    /\ TocIdle
    /\ RunIdle
NextWhitelist ==
    /\ WlNext
    /\ UNCHANGED <<walkVars, tableVars, textVars, titleVars, corVars,
                 guiVars, cmpVars, imgVars, tocVars, runVars>>
SpecWhitelist == InitWhitelist /\ [][NextWhitelist]_vars

----------------------------------------------------------------------------
(* Properties of the walker and the renderer (specification Spec) *)

IsPara(i) == doc[i].tag = "p"
TextAt(i) == Strip(doc[i].text)
IsMarkerAt(i) == IsPara(i) /\ StartsWith(TextAt(i), PRESENTS)
IsBlankAt(i) == IsPara(i) /\ TextAt(i) = <<>>
\* a paragraph that counts as an attendee name
IsNameAt(i) ==
    /\ IsPara(i) /\ TextAt(i) # <<>>
    /\ ~StartsWith(TextAt(i), START_TEXT) /\ ~StartsWith(TextAt(i), PRESENTS)
\* a non-empty paragraph that is neither a header nor the marker
IsPlainAt(i) ==
    /\ IsPara(i) /\ TextAt(i) # <<>> /\ ~StartsWith(TextAt(i), PRESENTS)
    /\ ~is_section_header(TextAt(i)) /\ ~is_subsection_header(TextAt(i))
TitleEmittedBefore(i) == \E j \in 1..Len(elements) :
    elements[j].type = "title" /\ elements[j].at < i
\* nodes m..e are: the marker, names only, a blank paragraph
AttendeeBlock(m, e) ==
    /\ m < e /\ IsMarkerAt(m) /\ IsBlankAt(e)
    /\ \A k \in (m + 1)..(e - 1) : IsNameAt(k)
\* one leading '#' removed from a stripped name
WithoutHash(t) == IF t # <<>> /\ t[1] = "#" THEN Strip(Tail(t)) ELSE t
ElementsOfType(type) == {j \in 1..Len(elements) : elements[j].type = type}
ElementsAt(i) == {j \in 1..Len(elements) : elements[j].at = i}

\* C1: once the Title is out, a marker paragraph m, then n >= 0 names, then a
\* blank paragraph e make the walker emit, at e, one AttendeeList holding
\* exactly the n names of m+1..e-1 in order (rendered without their leading
\* '#') and return to Normal; a plain paragraph right after e is emitted as
\* a Paragraph.
C1_AttendeeBlockEmitsItsNames ==
    \A m \in 1..pos : \A e \in 1..pos :
        (AttendeeBlock(m, e) /\ TitleEmittedBefore(m)) =>
            /\ Cardinality({j \in ElementsOfType("present_section") :
                               elements[j].at \in m..e}) = 1
            /\ \A j \in ElementsOfType("present_section") :
                   elements[j].at \in m..e =>
                       /\ elements[j].at = e
                       /\ elements[j].names = [k \in 1..(e - 1 - m) |-> TextAt(m + k)]
                       /\ CleanedNames(elements[j].names) =
                              [k \in 1..(e - 1 - m) |-> WithoutHash(TextAt(m + k))]
            /\ (pos = e => ~in_present_section /\ present_names_buffer = <<>>)
            /\ (pos = e + 1 /\ IsPlainAt(e + 1)) =>
                   /\ ~in_present_section
                   /\ elements[Len(elements)].type = "paragraph"
                   /\ elements[Len(elements)].para = e + 1

\* C2: at most one Title is emitted; it is the stripped text of the first
\* paragraph whose text is not blank, whatever that text looks like; that
\* paragraph yields no other element but its images, is not queued for
\* correction and leaves the walker in Normal state.
FirstTextNodes ==
    {i \in 1..Len(doc) : IsPara(i) /\ TextAt(i) # <<>>
                         /\ \A k \in 1..(i - 1) : ~(IsPara(k) /\ TextAt(k) # <<>>)}

C2_TitleIsFirstNonEmptyParagraph ==
    /\ Cardinality(ElementsOfType("title")) <= 1
    /\ \A j \in ElementsOfType("title") :
           /\ elements[j].at \in FirstTextNodes
           /\ elements[j].text = TextAt(elements[j].at)
    /\ \A i \in FirstTextNodes :
           i <= pos =>
               /\ \E j \in ElementsOfType("title") : elements[j].at = i
               /\ \A j \in ElementsAt(i) : elements[j].type \in {"title", "image"}
               /\ \A k \in 1..Len(paragraphs_to_correct) : paragraphs_to_correct[k] # i
               /\ (pos = i => ~in_present_section /\ present_names_buffer = <<>>)

\* reached: the marker text itself, after a blank paragraph, became the Title
C2_Witness ==
    /\ pos = 2
    /\ IsBlankAt(1)
    /\ \E j \in ElementsOfType("title") :
           elements[j].at = 2 /\ elements[j].text = PRESENTS
    /\ ~in_present_section

\* C3: the element sequence keeps the document order: of two elements, the one
\* whose source content comes first in the body comes first (an Image and the
\* element of the paragraph that embeds it have the same source node, the
\* Image first).
C3_ElementsInDocumentOrder ==
    \A j \in 1..Len(elements) : \A k \in 1..Len(elements) :
        j < k =>
            /\ \A a \in 1..Len(elements[j].src) : \A b \in 1..Len(elements[k].src) :
                   elements[j].src[a] <= elements[k].src[b]
            /\ (elements[k].type = "image" /\ elements[j].at = elements[k].at)
                   => elements[j].type = "image"

\* the iterations of the last render that wrote the table of contents
TocSteps ==
    {k \in 1..Len(rtrace) :
        \E b \in 1..Len(rtrace[k].wrote) : rtrace[k].wrote[b].kind = "toc_begin"}
\* the table of contents is always followed by the logo block
TocThenLogo(k) ==
    LET w == rtrace[k].wrote
    IN /\ w # <<>> /\ w[1].kind = "toc_begin" /\ w[Len(w)].kind = "logo"
       /\ Len(w) > 1 /\ w[Len(w) - 1].kind = "toc_end"
Rendered == pc \in {"done", "rendered_twice"}
\* element k is reached with only Tables and Images since an AttendeeList
AfterAttendeeList(k) ==
    \E j \in 1..(k - 1) :
        /\ elements[j].type = "present_section"
        /\ \A i \in (j + 1)..(k - 1) : elements[i].type \in {"table", "image"}

\* element k follows an AttendeeList, not counting the Images of its own paragraph
RightAfterAttendeeList(k) ==
    \E j \in 1..(k - 1) :
        /\ elements[j].type = "present_section"
        /\ \A i \in (j + 1)..(k - 1) :
               elements[i].type = "image" /\ elements[i].at = elements[k].at

\* C4 as stated: in one render the table of contents and the logo block are
\* written at most once, only if the section list is not empty, only on a
\* start_text element or on the element right after an AttendeeList, and
\* presentInserted is false after that step.
C4_TocOnlyRightAfterAttendeeList ==
    Rendered =>
        /\ Cardinality(TocSteps) <= 1
        /\ \A k \in TocSteps :
               /\ TocThenLogo(k)
               /\ sections_list # <<>>
               /\ \/ elements[k].type = "start_text"
                  \/ RightAfterAttendeeList(k)
               /\ ~rtrace[k].present_inserted

\* C4 amended: in one render the table of contents and the logo block are
\* written at most once, only if the section list is not empty, and only on a
\* start_text element or on the first element other than a Table or an Image
\* that comes after an AttendeeList (Tables and Images between the two do not
\* clear presentInserted); presentInserted is false after that step.
C4_TocOnceWhilePresentInserted ==
    Rendered =>
        /\ Cardinality(TocSteps) <= 1
        /\ \A k \in TocSteps :
               /\ TocThenLogo(k)
               /\ sections_list # <<>>
               /\ elements[k].type \notin {"title", "table", "image", "present_section"}
               /\ elements[k].type = "start_text" \/ AfterAttendeeList(k)
               /\ ~rtrace[k].present_inserted

\* reached: the table of contents written on a Paragraph that a Table
\* separates from the AttendeeList
C4_Witness ==
    /\ pc = "done"
    /\ \E k \in TocSteps :
           /\ k > 2
           /\ elements[k].type = "paragraph"
           /\ elements[k - 1].type = "table"
           /\ elements[k - 2].type = "present_section"

\* C5: rendering the same processed document twice gives the same markup, and
\* the render leaves the section list and the subsection list as the scan of
\* the document built them.
C5_RenderTwiceSameMarkup ==
    pc = "rendered_twice" =>
        /\ Len(markup) = 2
        /\ markup[1] = markup[2]
        /\ sections_list = extract_sections_list(doc).sections
        /\ subsections_list = extract_sections_list(doc).subsections

----------------------------------------------------------------------------
(* Properties of remove_duplicate_columns (specification SpecTable) *)

NumCols(t) == IF t = <<>> THEN 0 ELSE Len(t[1])
\* the columns that equal no earlier column
FirstOfGroup(t) ==
    {j \in 1..NumCols(t) : \A i \in 1..(j - 1) : Column(t, i) # Column(t, j)}
\* the k-th smallest member of a set of indices
Nth(S, k) == CHOOSE j \in S : Cardinality({i \in S : i < j}) = k - 1
KeepFirstOfGroups(t) ==
    [r \in 1..Len(t) |->
        [k \in 1..Cardinality(FirstOfGroup(t)) |-> t[r][Nth(FirstOfGroup(t), k)]]]

\* C6: on a rectangular table remove_duplicate_columns keeps, in their
\* order, exactly the columns that equal no earlier column, keeps the number
\* of rows and leaves no two identical columns; applied to its own result it
\* returns that result.
C6_DedupeKeepsFirstOfEachGroup ==
    tbl_pc \in {"once", "twice"} =>
        /\ tbl_out = KeepFirstOfGroups(tbl_in)
        /\ Len(tbl_out) = Len(tbl_in)
        /\ \A i \in 1..NumCols(tbl_out) : \A j \in 1..NumCols(tbl_out) :
               i # j => Column(tbl_out, i) # Column(tbl_out, j)

\* reached: the second of three columns repeats the first and is removed,
\* and the second application has returned the same table
C6_Witness ==
    /\ tbl_pc = "twice"
    /\ tbl_in = << <<"a", "a", "b">>, <<"b", "b", "a">> >>
    /\ tbl_out = << <<"a", "b">>, <<"b", "a">> >>

----------------------------------------------------------------------------
(* Properties of the classifier and of escape_latex (specification SpecText) *)

\* t begins with n >= 1 digits and then ')'
BeginsDigitsParen(t) ==
    \E n \in 1..(Len(t) - 1) :
        /\ \A k \in 1..n : t[k] \in Digits
        /\ t[n + 1] = ")"
\* t begins with one letter and then ')'
BeginsLetterParen(t) == Len(t) >= 2 /\ t[1] \in AsciiLetters /\ t[2] = ")"
\* what follows the first ')' of t
AfterFirstParen(t) ==
    LET p == CHOOSE q \in 1..Len(t) : t[q] = ")" /\ \A k \in 1..(q - 1) : t[k] # ")"
    IN SubSeq(t, p + 1, Len(t))

\* C7: is_section_header(t) holds iff t begins with one or more digits and
\* then ')'; is_subsection_header(t) holds iff t begins with exactly one letter
\* (a-z, A-Z) and then ')'; never both; extract_section_title(t) is the text
\* after the first ')' stripped when either holds, and t otherwise.
C7_HeaderClassification ==
    txt_pc = "classified" =>
        /\ txt_out.section = BeginsDigitsParen(txt_in)
        /\ txt_out.subsection = BeginsLetterParen(txt_in)
        /\ ~(txt_out.section /\ txt_out.subsection)
        /\ txt_out.title =
               IF BeginsDigitsParen(txt_in) \/ BeginsLetterParen(txt_in)
               THEN Strip(AfterFirstParen(txt_in))
               ELSE txt_in

\* reached: a section header whose title is what follows "1)"
C7_Witness ==
    /\ txt_pc = "classified"
    /\ txt_in = <<"1", ")", "a">>
    /\ txt_out.section /\ ~txt_out.subsection
    /\ txt_out.title = <<"a">>

ReservedChars == {LATEX_SPECIAL_CHARS[k][1] : k \in 1..Len(LATEX_SPECIAL_CHARS)}
\* the replacement the table gives for one character
Substitute(c) ==
    IF c \in ReservedChars
    THEN LATEX_SPECIAL_CHARS[CHOOSE k \in 1..Len(LATEX_SPECIAL_CHARS) :
                                 LATEX_SPECIAL_CHARS[k][1] = c][2]
    ELSE <<c>>

\* C8: with the default table, escape_latex(T) is the simultaneous
\* substitution of every character of T by its replacement (no reserved
\* character of T is left, no replacement is escaped again), and it is T when
\* T holds no reserved character.
C8_EscapeIsSimultaneousSubstitution ==
    txt_pc = "escaped" =>
        /\ txt_out.escaped = Concat([k \in 1..Len(txt_in) |-> Substitute(txt_in[k])])
        /\ (\A k \in 1..Len(txt_in) : txt_in[k] \notin ReservedChars)
               => txt_out.escaped = txt_in

\* reached: a text with '{', then '~' whose replacement holds braces
C8_Witness ==
    /\ txt_pc = "escaped"
    /\ txt_in = <<"{", "~">>
    /\ txt_out.escaped = <<"\\", "{">> \o Substitute("~")
    /\ Len(txt_out.escaped) > 4

----------------------------------------------------------------------------
(* Properties of the page header (specification SpecTitle) *)

Contains(hay, needle) ==
    \E i \in 1..(Len(hay) - Len(needle) + 1) : LitAt(hay, i, needle)
REUNION_COMITE ==
    <<"R", "é", "u", "n", "i", "o", "n", " ", "C", "o", "m", "i", "t", "é", " ",
      "n", "°", " ">>
\* "DD/MM/YYYY" from the fields as written
Slashed(jour, mois, annee) == jour \o <<"/">> \o mois \o <<"/">> \o annee
FIRST_PV_7 ==
    LIT_PV_RC \o <<"7">> \o LIT_ANNO \o <<"L", "I", "X">> \o LIT_DASH
    \o <<"2", "0", "2", "5", "-", "0", "1", "-", "2", "7">>

\* C9 as stated: the page header comes from the document's first paragraph:
\* when it is "PV RC 7 - Anno LIX - 2025-01-27", whatever the file is called,
\* the header holds "Réunion Comité n° 7" and "27/01/2025".
C9_HeaderFromFirstParagraph ==
    (ttl_pc = "done" /\ ttl_first_text = FIRST_PV_7) =>
        /\ Contains(ttl_header, REUNION_COMITE \o <<"7">>)
        /\ Contains(ttl_header, Slashed(<<"2", "7">>, <<"0", "1">>, <<"2", "0", "2", "5">>))

\* C9 amended: the page header comes from the input file's name without its
\* extension: when that name is "PV RC <n> - Anno <roman> - YYYY-MM-DD"
\* (followed by anything), whatever the first paragraph is, the header holds
\* "Réunion Comité n° <n>" and the date "DD/MM/YYYY".
C9_HeaderFromFileName ==
    (ttl_pc = "done" /\ WellFormed(ttl_parts)) =>
        /\ ttl_title = ttl_stem
        /\ Contains(ttl_header, REUNION_COMITE \o ttl_parts.numero \o HEAD_HFILL)
        /\ Contains(ttl_header,
                    HEAD_HFILL \o Slashed(ttl_parts.jour, ttl_parts.mois, ttl_parts.annee)
                    \o <<"}">>)

\* reached: a well-formed file name with a first paragraph that is no title
C9_Witness ==
    /\ ttl_pc = "done"
    /\ WellFormed(ttl_parts)
    /\ ttl_parts.numero = <<"1", "2">>
    /\ ttl_first_text = <<"O", "r", "d", "r", "e">>
    /\ Contains(ttl_header, REUNION_COMITE \o <<"1", "2">>)

\* the academic year of a year and a month written in digits
AcademicYear(annee, mois) ==
    IF ToInt(mois) > 6
    THEN annee \o LIT_DASH \o IntToStr(ToInt(annee) + 1)
    ELSE IntToStr(ToInt(annee) - 1) \o LIT_DASH \o annee

\* C10: generate_title_header returns a header for every title: the plain
\* centered header with the escaped title when the title does not have the
\* format, and otherwise the structured header whose academic year is
\* "Y - Y+1" when the month is greater than 6 and "Y-1 - Y" when it is not.
C10_HeaderForEveryTitle ==
    ttl_pc = "done" =>
        IF WellFormed(ttl_parts)
        THEN /\ StartsWith(ttl_header, HEAD_LEFT \o ttl_parts.anno \o HEAD_HFILL
                               \o AcademicYear(ttl_parts.annee, ttl_parts.mois)
                               \o HEAD_MID)
             /\ ~StartsWith(ttl_header, HEAD_CENTER)
        ELSE ttl_header =
                 HEAD_CENTER
                 \o Concat([k \in 1..Len(ttl_stem) |-> Substitute(ttl_stem[k])])
                 \o <<"}">>

\* reached: a title out of format, with a reserved character, gets the plain
\* header with that character escaped
C10_Witness ==
    /\ ttl_pc = "done"
    /\ ttl_parts.prefix = <<"P", "V", "_">>
    /\ StartsWith(ttl_header, HEAD_CENTER \o <<"P", "V", "\\", "_">>)

----------------------------------------------------------------------------
(* Properties of the corrector (specification SpecCorrect) *)

\* C11: when the service call of a batch raises, or there is no client,
\* every paragraph of the batch keeps the text of each of its runs, and
\* correct_paragraphs_batch returns.
C11_FailedBatchKeepsRuns ==
    cor_pc = "returned" =>
        /\ ~cor_client => cor_paras = cor_orig
        /\ \A b \in 1..Len(cor_log) :
               cor_log[b].outcome = "raises" =>
                   \A k \in 1..Len(cor_log[b].batch) :
                       cor_paras[cor_log[b].batch[k]] = cor_orig[cor_log[b].batch[k]]

----------------------------------------------------------------------------
(* Properties of the batch caller (specification SpecBatch) *)

CallsWith(outcome) == {k \in 1..Len(gui_calls) : gui_calls[k].outcome = outcome}

\* C12: in process_files an exception of convert is counted as one error and
\* the loop goes on: the files are converted once each, in list order, up to
\* the end of the list; at the end success_count + error_count is the number
\* of files processed, and the processing flag is false again.
C12_BatchSurvivesFailedFile ==
    /\ gui_pc \in {"loop", "summary"} =>
           /\ gui_i = Len(gui_calls)
           /\ gui_i <= Len(files_to_process)
           /\ \A k \in 1..Len(gui_calls) :
                  gui_calls[k].file_path = files_to_process[k]
           /\ \A j \in 1..Len(files_to_process) : \A k \in 1..Len(files_to_process) :
                  j # k => files_to_process[j] # files_to_process[k]
           /\ processing
    /\ gui_pc \in {"loop", "summary", "finished"} =>
           /\ error_count = Cardinality(CallsWith("raises"))
           /\ success_count = Cardinality(CallsWith("returns"))
           /\ success_count + error_count = Len(gui_calls)
    /\ gui_pc \in {"summary", "finished"} => Len(gui_calls) >= total_files
    /\ gui_pc = "finished" => ~processing

\* reached: the first of two files failed, the second was converted, the run
\* is over
C12_Witness ==
    /\ gui_pc = "finished"
    /\ ~processing
    /\ Len(gui_calls) = 2
    /\ gui_calls[1].outcome = "raises" /\ gui_calls[2].outcome = "returns"
    /\ error_count = 1 /\ success_count = 1

----------------------------------------------------------------------------
(* Properties of the compilation (specifications SpecCompile and            *)
(* SpecCompileFair)                                                         *)

\* the steps of convert and _compile_to_pdf are taken one after the other
SpecCompileFair == SpecCompile /\ WF_vars(NextCompile)

EnginesRun(engine) ==
    Cardinality({k \in 1..Len(cmp_invocations) : cmp_invocations[k] = engine})

\* C13: _compile_to_pdf returns after at most five compiler runs (pdflatex,
\* the lualatex fallback, two retries, one cross-reference pass), whatever
\* the exit codes and diagnostics, and extends the package list and retries
\* at most once per call.
C13_CompileIsBounded ==
    /\ [](/\ Len(cmp_invocations) <= 5
          /\ EnginesRun("lualatex") <= 1
          /\ cmp_extended <= 1)
    /\ (cmp_pc \in CompilePcs) ~> (cmp_pc = "compiled")

\* reached: a call that ran the five compilations, with one extension
C13_Witness ==
    /\ cmp_pc = "compiled"
    /\ cmp_invocations = <<"pdflatex", "lualatex", "pdflatex", "pdflatex", "pdflatex">>
    /\ cmp_extended = 1

\* C14: whenever _compile_to_pdf has returned, the auxiliary files of the
\* compiled source are gone from the working directory.
C14_AuxiliaryFilesPurged ==
    (cmp_pc = "compiled" /\ cmp_pdf_path # "not_called") => ~cmp_aux

\* C15: when convert has returned, the package list of the configuration is
\* what it was before the call, and every conversion of the instance writes
\* the same document header.
C15_ConfigurationUnchanged ==
    cmp_pc = "returned" =>
        /\ latex_packages = DEFAULT_LATEX_PACKAGES
        /\ cmp_headers[Len(cmp_headers)] = generate_document_header(DEFAULT_LATEX_PACKAGES)

\* C18: when the compilation was requested and gave no artifact, convert
\* returns the path of the markup file and does not raise; when it gave an
\* artifact, convert returns the artifact's path.
C18_ConvertReturnsMarkupOrArtifact ==
    /\ (cmp_pc = "returned" /\ cmp_compile_pdf) =>
           /\ cmp_pdf_path = "none" => cmp_result = "tex"
           /\ cmp_pdf_path = "pdf_in_latex_dir" =>
                  cmp_result \in {"pdf_in_pdf_dir", "pdf_in_latex_dir"}
    /\ cmp_pc = "raised" => cmp_pdf_path = "not_called"

\* reached: both engines and the retries failed, convert returned the markup
C18_Witness ==
    /\ cmp_pc = "returned"
    /\ cmp_compile_pdf
    /\ Len(cmp_invocations) = 4
    /\ cmp_pdf_path = "none"
    /\ cmp_result = "tex"

----------------------------------------------------------------------------
(* Properties of the image sizing (specification SpecImage) *)

HasOption(options, name) == \E k \in 1..Len(options) : options[k].option = name
\* the extent a drawing carries itself: its first cx and cy, if any
NativeExtentMissingOrZero(d) ==
    \/ d.cx = <<>> \/ d.cy = <<>>
    \/ d.cx[1] = 0 \/ d.cy[1] = 0

\* C16: an Image element gets a width (height) option iff it carries that
\* value and the value is positive; an image whose own extent is 0 or missing
\* gets no sizing option; an extent of 914400 units comes out as 2.54 cm.
C16_ImageSizing ==
    img_pc = "rendered" =>
        \A k \in 1..Len(img_elements) :
            LET e == img_elements[k]
                d == img_xml[e.idx]
            IN /\ HasOption(img_options[k], "width")
                      <=> (e.width_cm # <<>> /\ e.width_cm[1] > 0)
               /\ HasOption(img_options[k], "height")
                      <=> (e.height_cm # <<>> /\ e.height_cm[1] > 0)
               /\ NativeExtentMissingOrZero(d) => img_options[k] = <<>>
               /\ (~NativeExtentMissingOrZero(d) /\ d.cx[1] = EMU_PER_INCH)
                      => \E o \in 1..Len(img_options[k]) :
                             img_options[k][o] = [option |-> "width", cm_x100 |-> 254]

----------------------------------------------------------------------------
(* Order of the steps of one conversion (specification Spec) *)

\* the step that may directly follow a step
FollowsStep(from, to) ==
    \/ from = "load" /\ to \in {"images", "failed"}
    \/ from = "images" /\ to = "scan"
    \/ from = "scan" /\ to \in {"walk", "failed"}
    \/ from = "walk" /\ to = "render"
    \/ from = "render" /\ to = "done"
    \/ from = "done" /\ to = "rendered_twice"

\* the step that ends the traversal: the correction pass ran, failed or was skipped
CorrectionStep == pc = "walk" /\ pc' = "render"

\* C17: a conversion goes through load, image extraction, traversal,
\* correction, render in this order; the correction pass happens at most once,
\* when every node has been traversed, and nothing is rendered before it.
C17_StepsInFixedOrder ==
    [][/\ pc' # pc => FollowsStep(pc, pc')
       /\ CorrectionStep => pos = Len(doc) /\ markup = <<>> /\ rtrace = <<>>
       /\ para_text' # para_text => CorrectionStep
       /\ elements' # elements => pc = "walk" /\ pc' = "walk"
       /\ markup' # markup => pc \in {"render", "done"}]_vars

\* a conversion whose correction pass changed a queued paragraph and that has
\* rendered its elements
C17_Witness ==
    /\ pc = "done"
    /\ markup # <<>>
    /\ \E k \in 1..Len(paragraphs_to_correct) :
           para_text[paragraphs_to_correct[k]] # doc[paragraphs_to_correct[k]].text

----------------------------------------------------------------------------
(* Content elements and the attendee marker (specification Spec) *)

\* what the renderer writes for a Section, Subsection or Paragraph element
ContentBlocks(e) ==
    IF e.type = "section"
    THEN <<Block("section", capitalize_first_letter(escape_latex(e.text)))>>
    ELSE IF e.type = "subsection"
    THEN <<Block("subsection", capitalize_first_letter(escape_latex(e.text)))>>
    ELSE format_paragraph_with_runs(para_text[e.para])

\* C19: every Section, Subsection and Paragraph element is rendered into the
\* markup; the renderer drops none of them, not even the one that directly
\* follows an attendee list.
C19_NoContentElementDropped ==
    pc = "done" =>
        \A k \in 1..Len(elements) :
            elements[k].type \in {"section", "subsection", "paragraph"}
                => rtrace[k].wrote = ContentBlocks(elements[k])


\* C20: once the title is out, right after the walker processed a paragraph
\* that starts with the marker it is inside the attendee block with an empty
\* buffer, and the marker text is not in the buffer, whether or not names
\* were pending when the marker arrived.
C20_MarkerResetsBuffer ==
    (pc = "walk" /\ pos >= 1 /\ IsMarkerAt(pos) /\ TitleEmittedBefore(pos)) =>
        /\ in_present_section
        /\ present_names_buffer = <<>>
        /\ \A k \in 1..Len(present_names_buffer) :
               present_names_buffer[k] # TextAt(pos)

----------------------------------------------------------------------------
(* The end of the traversal and the end of an attendee block               *)
(* (specification Spec)                                                     *)

TraversalEnded == pc \in {"render", "done", "rendered_twice"}

\* the paragraphs whose text was appended to the buffer and came out in an
\* AttendeeList element
EmittedNameParagraphs ==
    UNION {{elements[j].src[k] : k \in 1..Len(elements[j].src)} :
              j \in ElementsOfType("present_section")}

\* C21: every name appended to the attendee buffer is in an AttendeeList when
\* the traversal ends, also when the document ends inside the attendee block;
\* the buffer is then empty.
C21_NoNameLostAtEnd ==
    TraversalEnded =>
        /\ present_names_buffer = <<>>
        /\ \A k \in 1..Len(buffer_at) : buffer_at[k] \in EmittedNameParagraphs


\* the step that processes node i while the walker is inside the attendee block
BlockStepAt(i) == pc = "walk" /\ pos = i - 1 /\ pos' = i /\ in_present_section
EndsWithUnderscores(i) == IsPara(i) /\ StartsWith(TextAt(i), <<"_", "_">>)
NewElements == {j \in 1..Len(elements') : j > Len(elements)}

\* C22: inside the attendee block a paragraph starting with "__" makes the
\* walker emit the AttendeeList immediately followed by one start_text marker,
\* an empty paragraph makes it emit the AttendeeList and no start_text marker;
\* afterwards the walker is in Normal with an empty buffer, and the
\* terminating paragraph is neither buffered nor emitted as a Paragraph.
C22_BlockTerminators ==
    [][\A i \in 1..Len(doc) :
         (BlockStepAt(i) /\ (EndsWithUnderscores(i) \/ IsBlankAt(i))) =>
            LET n == Len(elements')
                lists == {j \in NewElements : elements'[j].type = "present_section"}
                starts == {j \in NewElements : elements'[j].type = "start_text"}
            IN /\ ~in_present_section'
               /\ present_names_buffer' = <<>>
               /\ Cardinality(lists) = 1
               /\ \A j \in lists : elements'[j].names = present_names_buffer
               /\ IF EndsWithUnderscores(i)
                  THEN starts = {n} /\ lists = {n - 1}
                  ELSE starts = {} /\ lists = {n}
               /\ \A j \in NewElements : elements'[j].type # "paragraph"
               /\ paragraphs_to_correct' = paragraphs_to_correct]_vars

\* a block with a pending name has just been ended by a "__" paragraph
C22_Witness ==
    /\ pc = "walk" /\ pos >= 1 /\ EndsWithUnderscores(pos)
    /\ Len(elements) >= 2
    /\ elements[Len(elements)].type = "start_text"
    /\ elements[Len(elements) - 1].type = "present_section"
    /\ elements[Len(elements) - 1].names # <<>>

----------------------------------------------------------------------------
(* Properties of the outline and the table of contents (specification      *)
(* SpecToc)                                                                 *)

\* the entries of the table of contents read off the headers in document
\* order: every section, each subsection under the last section before it
RECURSIVE OutlineEntries(_, _)
OutlineEntries(d, i) ==
    IF i > Len(d) THEN <<>>
    ELSE LET text == Strip(d[i].text) IN
         (IF is_section_header(text)
          THEN <<Block("toc_section",
                       capitalize_first_letter(escape_latex(extract_section_title(text))))>>
          ELSE IF is_subsection_header(text)
          THEN <<Block("toc_subsection", escape_latex(extract_section_title(text)))>>
          ELSE <<>>)
         \o OutlineEntries(d, i + 1)

\* C23: generate_toc lists every section once, in outline order, and every
\* recorded subsection once, directly under the section that owns it, for any
\* titles (a title that begins another one, equal titles, an empty title).
C23_TocFollowsOutline ==
    (toc_pc = "generated" /\ toc_sections # <<>>) =>
        toc_lines = <<Block("toc_begin", <<>>)>> \o OutlineEntries(toc_doc, 1)
                    \o <<Block("toc_end", <<>>)>>

\* the subsections recorded by the scan name, each, the last section header
\* before them
RECURSIVE OwnedSubsections(_, _, _)
OwnedSubsections(d, i, owner) ==
    IF i > Len(d) THEN <<>>
    ELSE LET text == Strip(d[i].text) IN
         IF is_section_header(text)
         THEN OwnedSubsections(d, i + 1, <<extract_section_title(text)>>)
         ELSE IF is_subsection_header(text) /\ owner # <<>>
         THEN <<owner[1], extract_section_title(text)>>
              \o OwnedSubsections(d, i + 1, owner)
         ELSE OwnedSubsections(d, i + 1, owner)

\* C24: the outline scan completes without error for every paragraph sequence
\* and records each subsection with the title of the last section header
\* before it, also when a subsection header comes before any section header.
C24_ScanNeverFails ==
    /\ toc_pc # "failed"
    /\ toc_pc = "scanned" =>
           toc_subsections = OwnedSubsections(toc_doc, 1, <<>>)

----------------------------------------------------------------------------
(* The outline against the body (specification Spec) *)

\* the texts of the elements of one type, in order
RECURSIVE TitlesOf(_, _)
TitlesOf(type, k) ==
    IF k > Len(elements) THEN <<>>
    ELSE (IF elements[k].type = type THEN <<elements[k].text>> ELSE <<>>)
         \o TitlesOf(type, k + 1)

\* the subsection titles of the recorded (owner, title) pairs
SubsectionTitles(subsections) ==
    [k \in 1..(Len(subsections) \div 2) |-> subsections[2 * k]]

\* C25: the outline agrees with the body: its sections are, in order, the
\* titles of the Section elements, its subsections the titles of the
\* Subsection elements; a header-shaped paragraph taken as Title or as an
\* attendee name is not in the outline.
C25_OutlineAgreesWithBody ==
    pc = "render" =>
        /\ sections_list = TitlesOf("section", 1)
        /\ SubsectionTitles(subsections_list) = TitlesOf("subsection", 1)

----------------------------------------------------------------------------
(* Batches of the corrector (specification SpecCorrect) *)

\* the indices of the paragraphs of cor_orig with a non-blank text, from i on
RECURSIVE NonBlankFrom(_)
NonBlankFrom(i) ==
    IF i > Len(cor_orig) THEN <<>>
    ELSE (IF Strip(Concat(cor_orig[i])) # <<>> THEN <<i>> ELSE <<>>)
         \o NonBlankFrom(i + 1)

\* the batches sent so far, one after the other
RECURSIVE SentFrom(_)
SentFrom(b) ==
    IF b > Len(cor_log) THEN <<>> ELSE cor_log[b].batch \o SentFrom(b + 1)

\* the segment the service sends back for paragraph p when it corrects
CorrectedSegment(p) == Strip(Concat(cor_orig[p])) \o <<"s">>

\* C26: the queued non-blank paragraphs are sent in order, in consecutive
\* batches of at most the batch size, each in exactly one batch; the i-th
\* segment of the answer goes to the i-th paragraph of the same batch; an
\* answer with more or fewer segments than were sent changes no paragraph
\* outside the batch, and the call returns.
C26_BatchesAndSegments ==
    (cor_pc = "returned" /\ cor_client) =>
        /\ SentFrom(1) = NonBlankFrom(1)
        /\ \A b \in 1..Len(cor_log) :
               /\ Len(cor_log[b].batch) \in 1..cor_batch_size
               /\ b < Len(cor_log) => Len(cor_log[b].batch) = cor_batch_size
               /\ \A k \in 1..Len(cor_log[b].batch) :
                      LET p == cor_log[b].batch[k] IN
                      /\ cor_log[b].outcome \in {"corrected", "one_more"} =>
                             cor_paras[p] =
                                 update_paragraph_text(cor_orig[p], CorrectedSegment(p))
                      /\ (cor_log[b].outcome = "first_only" /\ k > 1) =>
                             cor_paras[p] = cor_orig[p]
                      /\ cor_log[b].outcome = "empty" => cor_paras[p] = cor_orig[p]
        /\ \A p \in 1..Len(cor_orig) :
               (\A k \in 1..Len(cor_valid) : cor_valid[k] # p) =>
                   cor_paras[p] = cor_orig[p]

\* a call that sent two batches, the first answered with one segment for two
\* paragraphs, the second corrected
C26_Witness ==
    /\ cor_pc = "returned" /\ cor_client
    /\ Len(cor_log) = 2
    /\ Len(cor_log[1].batch) = 2
    /\ cor_log[1].outcome = "first_only"
    /\ cor_log[2].outcome = "corrected"

----------------------------------------------------------------------------
(* Rendering after the correction (specification Spec) *)

\* the heading or paragraph markup of element e made from the text its
\* paragraph has after the correction pass
FromCorrectedText(e) ==
    IF e.type = "paragraph" THEN format_paragraph_with_runs(para_text[e.para])
    ELSE <<Block(e.type,
                 capitalize_first_letter(escape_latex(
                     extract_section_title(Strip(para_text[e.para])))))>>

\* the iteration of element k wrote the element's own markup
WroteOwnMarkup(k) ==
    /\ rtrace[k].wrote # <<>>
    /\ rtrace[k].wrote[1].kind \notin {"toc_begin", "logo"}

\* C27: every element whose paragraph was queued for correction is rendered
\* from the corrected text: a Section or Subsection heading carries the
\* corrected title, as a Paragraph carries its corrected runs.
C27_RenderedFromCorrectedText ==
    pc = "done" =>
        \A k \in 1..Len(elements) :
            (elements[k].type \in {"section", "subsection", "paragraph"}
             /\ WroteOwnMarkup(k))
                => rtrace[k].wrote = FromCorrectedText(elements[k])

----------------------------------------------------------------------------
(* The file list while a batch runs (specification SpecBatch) *)

\* C28: while a batch is running no second worker is started and no user
\* action changes the list of files: the files converted are the files
\* present at the start, and their number is the total announced.
C28_ListFrozenWhileProcessing ==
    /\ processing <=> gui_pc \in {"started", "loop", "summary"}
    /\ gui_pc \in {"loop", "summary"} => Len(files_to_process) = total_files
    /\ gui_pc \in {"summary", "finished"} => Len(gui_calls) = total_files

----------------------------------------------------------------------------
(* Properties of _update_paragraph_text (specification SpecRuns) *)

TextsOf(runs) == [k \in 1..Len(runs) |-> runs[k].text]
TotalLength == Len(Concat(TextsOf(run_runs)))

\* C29: after _update_paragraph_text on a paragraph with k >= 1 runs, the run
\* texts concatenated are the corrected string, there are still k runs with
\* their bold/italic flags, every run but the last holds
\* floor(len(corrected) * len(run) / total) characters and the last one the
\* rest.
C29_RunsCarryCorrectedText ==
    (run_pc = "updated" /\ Len(run_runs) >= 1) =>
        /\ Concat(TextsOf(run_after)) = run_new
        /\ Len(run_after) = Len(run_runs)
        /\ \A k \in 1..Len(run_runs) :
               /\ run_after[k].bold = run_runs[k].bold
               /\ run_after[k].italic = run_runs[k].italic
        /\ TotalLength > 0 =>
               \A k \in 1..(Len(run_runs) - 1) :
                   Len(run_after[k].text) =
                       (Len(run_new) * Len(run_runs[k].text)) \div TotalLength

----------------------------------------------------------------------------
(* Properties of _call_correction_api (specification SpecWhitelist) *)

\* C30: when _call_correction_api returns, the whitelist of the
\* configuration is what it was before the call, on every exit path (answer,
\* exception of the service, exception while the prompt is built, no
\* client), also when another whitelist was passed.
C30_WhitelistRestored ==
    wl_pc = "returned" => wl_config = wl_before

\* a call given another whitelist built its prompt with it, the service
\* raised, and the call returned the text
C30_Witness ==
    /\ wl_pc = "returned"
    /\ wl_arg # wl_before
    /\ wl_prompt = <<wl_arg>>
    /\ wl_exit = "except"
    /\ wl_result = "text"

====
